---------------------------- MODULE Spec2Model ----------------------------
(***************************************************************************)
(* keyhunter: directory scan for secrets.                                  *)
(*                                                                         *)
(* A rule pattern is a sequence of one-character strings.  A file is       *)
(* described sparsely: its size, the token segments it contains (a literal *)
(* followed by a run of class characters) at their byte offsets, and the   *)
(* runs of NUL / non-printable bytes; every other byte is a space.  All    *)
(* offsets and the engine's constants keep their real values.  Rule and    *)
(* anchor indices are 1-based here (0-based in the source).                *)
(***************************************************************************)
EXTENDS Integers, Sequences, FiniteSets, TLC

(***************************************************************************)
(* Characters and byte strings                                             *)
(***************************************************************************)

\* printable ASCII in byte order, the order Vec<u8> and String comparison use
AsciiOrder ==
  <<" ","!","#","$","%","&","'","(",")","*","+",",","-",".","/",
    "0","1","2","3","4","5","6","7","8","9",":",";","<","=",">","?","@",
    "A","B","C","D","E","F","G","H","I","J","K","L","M","N","O","P","Q","R",
    "S","T","U","V","W","X","Y","Z","[","\\","]","^","_",
    "a","b","c","d","e","f","g","h","i","j","k","l","m","n","o","p","q","r",
    "s","t","u","v","w","x","y","z","{","|","}","~">>

Code(c) == CHOOSE i \in DOMAIN AsciiOrder : AsciiOrder[i] = c

Lower == <<"a","b","c","d","e","f","g","h","i","j","k","l","m","n","o","p","q","r","s","t","u","v","w","x","y","z">>

Upper == <<"A","B","C","D","E","F","G","H","I","J","K","L","M","N","O","P","Q","R","S","T","U","V","W","X","Y","Z">>

Digits == <<"0","1","2","3","4","5","6","7","8","9">>

Range(s) == {s[i] : i \in DOMAIN s}

is_ascii_alphanumeric(ch) == ch \in Range(Lower) \cup Range(Upper) \cup Range(Digits)

to_ascii_uppercase(s) ==
  [i \in DOMAIN s |->
     IF s[i] \in Range(Lower) THEN Upper[CHOOSE k \in DOMAIN Lower : Lower[k] = s[i]]
     ELSE s[i]]

Min(a, b) == IF a <= b THEN a ELSE b

Max(a, b) == IF a >= b THEN a ELSE b

\* usize::saturating_sub
saturating_sub(a, b) == IF a >= b THEN a - b ELSE 0

\* lit occurs in s at (1-based) index i
OccursAt(s, lit, i) ==
  /\ i >= 1
  /\ i + Len(lit) - 1 <= Len(s)
  /\ \A k \in 1..Len(lit) : s[i + k - 1] = lit[k]

\* str::contains
Contains(s, lit) == \E i \in 1..(Len(s) + 1) : OccursAt(s, lit, i)

starts_with(s, lit) == OccursAt(s, lit, 1)

\* Ord for byte strings: lexicographic by byte, a proper prefix first
BytesLess(a, b) ==
  \E i \in 1..(Min(Len(a), Len(b)) + 1) :
     /\ \A k \in 1..(i - 1) : a[k] = b[k]
     /\ IF i > Len(a) THEN i <= Len(b)
        ELSE i <= Len(b) /\ Code(a[i]) < Code(b[i])

(***************************************************************************)
(* Anchor extraction (prefilter.rs)                                        *)
(***************************************************************************)

curated ==
  << <<"s","k","-">>,
     <<"s","k","_">>,
     <<"r","k","_">>,
     <<"g","h","p","_">>,
     <<"g","h","o","_">>,
     <<"g","h","r","_">>,
     <<"g","h","s","_">>,
     <<"g","h","u","_">>,
     <<"g","i","t","h","u","b","_","p","a","t","_">>,
     <<"g","l","p","a","t","-">>,
     <<"x","o","x","b","-">>,
     <<"x","o","x","p","-">>,
     <<"x","o","x","e","-">>,
     <<"x","o","x","s","-">>,
     <<"x","a","p","p","-">>,
     <<"h","o","o","k","s",".","s","l","a","c","k",".","c","o","m">>,
     <<"s","l","a","c","k",".","c","o","m">>,
     <<"A","K","I","A">>,
     <<"A","S","I","A">>,
     <<"A","3","T">>,
     <<"A","B","I","A">>,
     <<"A","C","C","A">>,
     <<"v","1",".","0","-">>,
     <<"c","l","o","u","d","f","l","a","r","e">>,
     <<"d","o","o","_","v","1","_">>,
     <<"d","o","p","_","v","1","_">>,
     <<"d","o","r","_","v","1","_">>,
     <<"d","i","s","c","o","r","d">>,
     <<"d","r","o","p","b","o","x">>,
     <<"E","A","A">>,
     <<"f","a","c","e","b","o","o","k">>,
     <<"h","e","r","o","k","u">>,
     <<"H","R","K","U","-","A","A">>,
     <<"h","f","_">>,
     <<"a","p","i","_","o","r","g","_">>,
     <<"l","i","n","_","a","p","i","_">>,
     <<"m","a","i","l","g","u","n">>,
     <<"n","t","n","_">>,
     <<"P","M","A","K","-">>,
     <<"p","n","u","_">>,
     <<"A","T","A","T","T","3">>,
     <<"S","G",".">>,
     <<"s","n","t","r","y","s","_">>,
     <<"s","n","t","r","y","u","_">>,
     <<"s","h","p","a","t","_">>,
     <<"s","h","p","c","a","_">>,
     <<"s","h","p","p","a","_">>,
     <<"s","h","p","s","s","_">>,
     <<"t","e","l","e","g","r","a","m">>,
     <<"A","I","z","a">>,
     <<"y","a","2","9",".">>,
     <<"o","p","e","n","a","i">>,
     <<"c","o","h","e","r","e">>,
     <<"-","-","-","-","-","B","E","G","I","N"," ">>,
     <<"-","-","-","-","-","E","N","D"," ">>,
     <<"P","R","I","V","A","T","E"," ","K","E","Y">>,
     <<"R","S","A"," ","P","R","I","V","A","T","E"," ","K","E","Y">>,
     <<"E","C"," ","P","R","I","V","A","T","E"," ","K","E","Y">>,
     <<"O","P","E","N","S","S","H"," ","P","R","I","V","A","T","E"," ","K","E","Y">> >>

\* step 1: the curated literals the pattern contains
CuratedIn(pat) == {curated[i] : i \in {k \in DOMAIN curated : Contains(pat, curated[k])}}

\* a step 1.1 that expands no idiom
NoIdioms(pat) == {}

\* step 1.1: the fixed alternation idioms
IdiomsIn(pat) ==
  (IF \/ Contains(pat, <<"x","o","x","[","p","e","]">>)
      \/ Contains(pat, <<"x","o","x","(","?",":","p","|","e",")">>)
   THEN {<<"x","o","x","p","-">>, <<"x","o","x","e","-">>} ELSE {})
  \cup
  (IF \/ Contains(pat, <<"x","o","x","[","o","s","]">>)
      \/ Contains(pat, <<"x","o","x","(","?",":","o","|","s",")">>)
   THEN {<<"x","o","x","o","-">>, <<"x","o","x","s","-">>} ELSE {})
  \cup
  (IF \/ Contains(pat, <<"(","?",":","g","h","u","|","g","h","s",")","_">>)
      \/ Contains(pat, <<"g","h","u","|","g","h","s",")","_">>)
   THEN {<<"g","h","u","_">>, <<"g","h","s","_">>} ELSE {})
  \cup
  (IF \/ Contains(pat, <<"(","?",":","s","k","|","r","k",")","_">>)
      \/ Contains(pat, <<"s","k","|","r","k",")","_">>)
   THEN {<<"s","k","_">>, <<"r","k","_">>} ELSE {})

is_meta(ch) == ch \in {"[", "]", "{", "}", "(", ")", "?", "*", "+", "|", "^", "$", "\\"}

allow(ch) == is_ascii_alphanumeric(ch) \/ ch \in {"-", "_", ".", "/"}

\* the set `out` after flushing the run `cur`
flush_literal(cur, out) == IF Len(cur) >= 3 THEN out \cup {cur} ELSE out

\* step 2: the character loop, from index i with the state (cur, in_class, out)
RECURSIVE LiteralRuns(_, _, _, _, _)
LiteralRuns(pat, i, cur, in_class, out) ==
  IF i > Len(pat) THEN flush_literal(cur, out)
  ELSE LET ch == pat[i] IN
       IF ch = "[" THEN LiteralRuns(pat, i + 1, <<>>, TRUE, flush_literal(cur, out))
       ELSE IF ch = "]" THEN LiteralRuns(pat, i + 1, <<>>, FALSE, flush_literal(cur, out))
       ELSE IF in_class THEN LiteralRuns(pat, i + 1, cur, in_class, out)
       ELSE IF is_meta(ch) THEN LiteralRuns(pat, i + 1, <<>>, in_class, flush_literal(cur, out))
       ELSE IF allow(ch) THEN LiteralRuns(pat, i + 1, Append(cur, ch), in_class, out)
       ELSE LiteralRuns(pat, i + 1, <<>>, in_class, flush_literal(cur, out))

stoplist ==
  {<<"K","E","Y">>, <<"B","E","G","I","N">>, <<"E","N","D">>,
   <<"P","R","I","V","A","T","E">>, <<"T","O","K","E","N">>,
   <<"A","C","C","E","S","S">>, <<"S","E","C","R","E","T">>,
   <<"A","U","T","H">>, <<"P","A","S","S","W","O","R","D">>}

short_whitelist ==
  {<<"s","k","_">>, <<"r","k","_">>, <<"g","h","u","_">>, <<"g","h","s","_">>,
   <<"x","o","x","p","-">>, <<"x","o","x","e","-">>, <<"x","o","x","s","-">>,
   <<"x","o","x","o","-">>}

has_sep(s) == \E i \in DOMAIN s : s[i] \in {"-", "_", ".", "/"}

is_stop(s) == Len(s) < 3 \/ to_ascii_uppercase(s) \in stoplist

\* a filter without the stoplist
KeepAnchorNoStop(s) ==
  IF s \in short_whitelist THEN TRUE
  ELSE IF Len(s) < 3 THEN FALSE
  ELSE IF Len(s) >= 6 THEN TRUE
  ELSE IF Len(s) >= 4 /\ has_sep(s) THEN TRUE
  ELSE s \in {<<"A","I","z","a">>, <<"y","a","2","9",".">>}

\* step 3: the filter closure
KeepAnchor(s) ==
  IF s \in short_whitelist THEN TRUE
  ELSE IF is_stop(s) THEN FALSE
  ELSE IF Len(s) >= 6 THEN TRUE
  ELSE IF Len(s) >= 4 /\ has_sep(s) THEN TRUE
  ELSE s \in {<<"A","I","z","a">>, <<"y","a","2","9",".">>}

\* the comparator of v.sort_by: length descending, then bytes ascending
AnchorBefore(a, b) == Len(a) > Len(b) \/ (Len(a) = Len(b) /\ BytesLess(a, b))

RECURSIVE SortAnchors(_)
SortAnchors(S) ==
  IF S = {} THEN <<>>
  ELSE LET a == CHOOSE x \in S : \A y \in S \ {x} : AnchorBefore(x, y)
       IN <<a>> \o SortAnchors(S \ {a})

extract_anchors_from_pattern(pat) ==
  LET out == LiteralRuns(pat, 1, <<>>, FALSE, CuratedIn(pat) \cup IdiomsIn(pat))
  IN SortAnchors({s \in out : KeepAnchor(s)})

(***************************************************************************)
(* Rules and the precise regexes                                           *)
(***************************************************************************)

\* sk-[A-Za-z0-9]{20,}
PatOpenai == <<"s","k","-","[","A","-","Z","a","-","z","0","-","9","]","{","2","0",",","}">>

\* ghp_[A-Za-z0-9]{36,40}
PatGhp == <<"g","h","p","_","[","A","-","Z","a","-","z","0","-","9","]","{","3","6",",","4","0","}">>

\* key=(ghp_[A-Za-z0-9]{36,})
PatCtx == <<"k","e","y","=","(","g","h","p","_","[","A","-","Z","a","-","z","0","-","9","]","{","3","6",",","}",")">>

\* (?:ghu|ghs)_[A-Za-z0-9]{36,}
PatGhu == <<"(","?",":","g","h","u","|","g","h","s",")","_","[","A","-","Z","a","-","z","0","-","9","]","{","3","6",",","}">>

\* xox[pe]-[A-Za-z0-9]{10,}
PatSlack == <<"x","o","x","[","p","e","]","-","[","A","-","Z","a","-","z","0","-","9","]","{","1","0",",","}">>

\* xox(?:o|s)-[A-Za-z0-9]{10,}
PatSlackOld == <<"x","o","x","(","?",":","o","|","s",")","-","[","A","-","Z","a","-","z","0","-","9","]","{","1","0",",","}">>

\* (?:sk|rk)_[A-Za-z0-9]{24,}
PatStripe == <<"(","?",":","s","k","|","r","k",")","_","[","A","-","Z","a","-","z","0","-","9","]","{","2","4",",","}">>

\* shpat_[A-Za-z0-9]{32}
PatShpat == <<"s","h","p","a","t","_","[","A","-","Z","a","-","z","0","-","9","]","{","3","2","}">>

\* pat_[A-Za-z0-9]{10,}
PatPat == <<"p","a","t","_","[","A","-","Z","a","-","z","0","-","9","]","{","1","0",",","}">>

\* PRIVATE KEY-----[A-Za-z0-9]{64,}
PatPrivKey == <<"P","R","I","V","A","T","E"," ","K","E","Y","-","-","-","-","-","[","A","-","Z","a","-","z","0","-","9","]","{","6","4",",","}">>

\* -----BEGIN [A-Za-z0-9]{3,}
PatPemBegin == <<"-","-","-","-","-","B","E","G","I","N"," ","[","A","-","Z","a","-","z","0","-","9","]","{","3",",","}">>

\* -----END [A-Za-z0-9]{3,}
PatPemEnd == <<"-","-","-","-","-","E","N","D"," ","[","A","-","Z","a","-","z","0","-","9","]","{","3",",","}">>

\* ghp_[A-Za-z0-9]{36}(?!x) : a look-ahead, which the regex crate does not support
PatLook == <<"g","h","p","_","[","A","-","Z","a","-","z","0","-","9","]","{","3","6","}","(","?","!","x",")">>

\* AIza[A-Za-z0-9]{35}
PatAIza == <<"A","I","z","a","[","A","-","Z","a","-","z","0","-","9","]","{","3","5","}">>

\* api_keys?=[A-Za-z0-9]{16} : the s is optional
PatOpt == <<"a","p","i","_","k","e","y","s","?","=","[","A","-","Z","a","-","z","0","-","9","]","{","1","6","}">>

\* \btok_[A-Za-z0-9]{10,} : a word boundary, then tok_
PatEsc == <<"\\","b","t","o","k","_","[","A","-","Z","a","-","z","0","-","9","]","{","1","0",",","}">>

\* {n,} : no upper limit on the repetition
Unbounded == -1

(* The compiled regex of a pattern, as far as matching needs it: the
   alternatives of its literal prefix, the number of leading literal bytes
   that lie outside capture group 1 (0 when the pattern has no group), and
   the repetition limits of the class [A-Za-z0-9] that follows. *)
CompileRegex(pat) ==
  CASE pat = PatOpenai -> [lits |-> {<<"s","k","-">>}, g1 |-> 0, min |-> 20, max |-> Unbounded]
    [] pat = PatGhp    -> [lits |-> {<<"g","h","p","_">>}, g1 |-> 0, min |-> 36, max |-> 40]
    [] pat = PatCtx    -> [lits |-> {<<"k","e","y","=","g","h","p","_">>}, g1 |-> 4, min |-> 36, max |-> Unbounded]
    [] pat = PatGhu    -> [lits |-> {<<"g","h","u","_">>, <<"g","h","s","_">>}, g1 |-> 0, min |-> 36, max |-> Unbounded]
    [] pat = PatSlack -> [lits |-> {<<"x","o","x","p","-">>, <<"x","o","x","e","-">>}, g1 |-> 0, min |-> 10, max |-> Unbounded]
    [] pat = PatSlackOld -> [lits |-> {<<"x","o","x","o","-">>, <<"x","o","x","s","-">>}, g1 |-> 0, min |-> 10, max |-> Unbounded]
    [] pat = PatStripe -> [lits |-> {<<"s","k","_">>, <<"r","k","_">>}, g1 |-> 0, min |-> 24, max |-> Unbounded]
    [] pat = PatShpat -> [lits |-> {<<"s","h","p","a","t","_">>}, g1 |-> 0, min |-> 32, max |-> 32]
    [] pat = PatPat -> [lits |-> {<<"p","a","t","_">>}, g1 |-> 0, min |-> 10, max |-> Unbounded]
    [] pat = PatPrivKey -> [lits |-> {<<"P","R","I","V","A","T","E"," ","K","E","Y","-","-","-","-","-">>}, g1 |-> 0, min |-> 64, max |-> Unbounded]
    [] pat = PatPemBegin -> [lits |-> {<<"-","-","-","-","-","B","E","G","I","N"," ">>}, g1 |-> 0, min |-> 3, max |-> Unbounded]
    [] pat = PatPemEnd -> [lits |-> {<<"-","-","-","-","-","E","N","D"," ">>}, g1 |-> 0, min |-> 3, max |-> Unbounded]
    [] pat = PatAIza -> [lits |-> {<<"A","I","z","a">>}, g1 |-> 0, min |-> 35, max |-> 35]
    [] pat = PatOpt -> [lits |-> {<<"a","p","i","_","k","e","y","s","=">>, <<"a","p","i","_","k","e","y","=">>}, g1 |-> 0, min |-> 16, max |-> 16]
    [] pat = PatEsc -> [lits |-> {<<"t","o","k","_">>}, g1 |-> 0, min |-> 10, max |-> Unbounded]

\* byte streams a class run is taken from: stream c is the byte c repeated
AsciiStreams == {"A", "B"}

\* String::from_utf8_lossy on matched bytes lit ++ body^n
from_utf8_lossy(raw) ==
  IF raw.body \in AsciiStreams THEN raw ELSE [raw EXCEPT !.body = "U+FFFD"]

\* String::len of a value (U+FFFD is three bytes)
ValueLen(v) == Len(v.lit) + (IF v.body = "U+FFFD" THEN 3 * v.n ELSE v.n)

(* One match of regex rx in the segment seg of a haystack that is the file
   slice [L, H): the literal must end seg.lit and lie inside the slice, and
   the class run is what the slice shows of the segment's body, at least
   rx.min and at most rx.max bytes.  <<>> when there is none, else
   <<[m0s, m0e, start, end, raw]>> in file offsets (group 0, then the chosen group). *)
MatchOn(rx, seg, L, H) ==
  LET alts == {a \in rx.lits : /\ Len(a) <= Len(seg.lit)
                               /\ OccursAt(seg.lit, a, Len(seg.lit) - Len(a) + 1)}
  IN IF alts = {} THEN <<>>
     ELSE LET alt == CHOOSE a \in alts : \A b \in alts : Len(b) <= Len(a)
              bs  == seg.pos + Len(seg.lit)
              ms  == bs - Len(alt)
              k   == Max(0, Min(seg.n, H - bs))
              cnt == IF rx.max = Unbounded THEN k ELSE Min(k, rx.max)
          IN IF ms >= L /\ bs <= H /\ seg.body \in AsciiStreams /\ k >= rx.min
             THEN << [m0s |-> ms, m0e |-> bs + cnt,
                      start |-> ms + rx.g1, end |-> bs + cnt,
                      raw |-> [lit |-> SubSeq(alt, rx.g1 + 1, Len(alt)),
                               body |-> seg.body, n |-> cnt]] >>
             ELSE <<>>

\* every match of rx in the file slice [L, H), left to right
RECURSIVE RegexMatches(_, _, _, _, _)
RegexMatches(rx, segs, i, L, H) ==
  IF i > Len(segs) THEN <<>>
  ELSE MatchOn(rx, segs[i], L, H) \o RegexMatches(rx, segs, i + 1, L, H)

(***************************************************************************)
(* The prefilter plan                                                      *)
(***************************************************************************)

WINDOW_BEFORE == 128

WINDOW_AFTER == 1024

IndexOf(seq, x) == CHOOSE i \in DOMAIN seq : seq[i] = x

\* a table that takes every anchor of the rule as a new entry
InternAlways(all_anchors, anchors, i) == all_anchors \o SubSeq(anchors, i, Len(anchors))

\* the anchors table after interning the anchors of one more rule
RECURSIVE InternAll(_, _, _)
InternAll(all_anchors, anchors, i) ==
  IF i > Len(anchors) THEN all_anchors
  ELSE InternAll(IF anchors[i] \in Range(all_anchors) THEN all_anchors
                 ELSE Append(all_anchors, anchors[i]),
                 anchors, i + 1)

\* the patterns rule files are written with
Patterns ==
  { PatOpenai, PatGhp, PatCtx, PatGhu, PatSlack, PatSlackOld, PatStripe, PatShpat,
    PatPat, PatPrivKey, PatPemBegin, PatPemEnd, PatLook, PatAIza, PatOpt, PatEsc }

\* extract_anchors_from_pattern, tabulated over the patterns in use
AnchorsOfPattern == [pat \in Patterns |-> extract_anchors_from_pattern(pat)]

RECURSIVE AllAnchors(_, _, _)
AllAnchors(specs, idx, all_anchors) ==
  IF idx > Len(specs) THEN all_anchors
  ELSE AllAnchors(specs, idx + 1,
                  InternAll(all_anchors, AnchorsOfPattern[specs[idx].pat], 1))

\* step 2 of the plan: rule_idx is pushed once for every occurrence of aid in its ids
RECURSIVE RulesOfAnchor(_, _, _, _)
RulesOfAnchor(ids, aid, rule_idx, k) ==
  IF rule_idx > Len(ids) THEN <<>>
  ELSE IF k > Len(ids[rule_idx]) THEN RulesOfAnchor(ids, aid, rule_idx + 1, 1)
  ELSE (IF ids[rule_idx][k] = aid THEN <<rule_idx>> ELSE <<>>)
       \o RulesOfAnchor(ids, aid, rule_idx, k + 1)

build_prefilter_plan(specs) ==
  LET all_anchors == AllAnchors(specs, 1, <<>>)
      rule_to_anchor_ids ==
        [idx \in DOMAIN specs |->
           LET a == AnchorsOfPattern[specs[idx].pat]
           IN [k \in DOMAIN a |-> IndexOf(all_anchors, a[k])]]
  IN [anchors |-> all_anchors,
      anchor_to_rules |->
        [aid \in DOMAIN all_anchors |-> RulesOfAnchor(rule_to_anchor_ids, aid, 1, 1)],
      rule_patterns |-> [r \in DOMAIN specs |-> specs[r].pat]]

\* MetaRegex::new(pat): Err is modelled as <<>>, Ok(rx) as <<rx>>
MetaRegexNew(pat) == IF pat = PatLook THEN <<>> ELSE <<CompileRegex(pat)>>

(* What a call returns, whatever the cache holds: None is modelled as <<>>,
   Some(rx) as <<rx>>. *)
get_or_compile_meta_regex(plan, rule_idx) ==
  IF rule_idx > Len(plan.rule_patterns) THEN <<>>
  ELSE MetaRegexNew(plan.rule_patterns[rule_idx])

(***************************************************************************)
(* Byte scan engine (engine_bytes.rs)                                      *)
(*                                                                         *)
(* A buffer is the file slice [lo, hi) it holds: [f |-> file, lo, hi].     *)
(* Positions inside a buffer are buffer-local, as in the source.           *)
(***************************************************************************)

SMALL_FILE_MAX == 1048576

CHUNK_SIZE == 4194304

CHUNK_OVERLAP == 512

\* bytes sampled by the binary test in the chunked path
SAMPLE_LEN == 8192

BufLen(buf) == buf.hi - buf.lo

(* plan.ac.find_iter over the visible part of one segment's literal, from
   file offset i: leftmost match first, the longest anchor at that position,
   then on from its end (non-overlapping). *)
RECURSIVE LitHits(_, _, _, _)
LitHits(anchors, seg, i, buf) ==
  IF i >= Min(buf.hi, seg.pos + Len(seg.lit)) THEN <<>>
  ELSE LET cands == {a \in DOMAIN anchors :
                       /\ i + Len(anchors[a]) <= buf.hi
                       /\ OccursAt(seg.lit, anchors[a], i - seg.pos + 1)}
       IN IF cands = {} THEN LitHits(anchors, seg, i + 1, buf)
          ELSE LET aid == CHOOSE a \in cands :
                            \A b \in cands : Len(anchors[b]) <= Len(anchors[a])
               IN << <<i - buf.lo, aid>> >>
                  \o LitHits(anchors, seg, i + Len(anchors[aid]), buf)

\* the (pos, anchor_id) hits of the automaton over the buffer, by position
RECURSIVE AcHits(_, _, _)
AcHits(anchors, buf, k) ==
  IF k > Len(buf.f.segs) THEN <<>>
  ELSE LitHits(anchors, buf.f.segs[k], Max(buf.lo, buf.f.segs[k].pos), buf)
       \o AcHits(anchors, buf, k + 1)

is_begin(anchor) == starts_with(anchor, <<"-","-","-","-","-","B","E","G","I","N"," ">>)

is_end(anchor) == starts_with(anchor, <<"-","-","-","-","-","E","N","D"," ">>)

\* anchor.windows(12).any(|w| w == b"PRIVATE KEY")
is_priv(anchor) ==
  \E i \in 1..(Len(anchor) - 11) :
     SubSeq(anchor, i, i + 11) = <<"P","R","I","V","A","T","E"," ","K","E","Y">>

WindowBeforeOf(anchor) ==
  IF is_end(anchor) \/ is_priv(anchor) THEN Max(WINDOW_BEFORE, 2048) ELSE WINDOW_BEFORE

WindowAfterOf(anchor) ==
  IF is_begin(anchor) \/ is_priv(anchor) THEN Max(WINDOW_AFTER, 16 * 1024) ELSE WINDOW_AFTER

\* windows that are never merged: one for every hit
BuildWindowsNoMerge(plan, hits, i, buflen, windows) ==
  windows \o
  [k \in 1..(Len(hits) - i + 1) |->
     LET pos    == hits[k + i - 1][1]
         aid    == hits[k + i - 1][2]
         anchor == IF aid \in DOMAIN plan.anchors THEN plan.anchors[aid] ELSE <<>>
     IN [s |-> saturating_sub(pos, WindowBeforeOf(anchor)),
         e |-> Min(pos + WindowAfterOf(anchor), buflen),
         aids |-> <<aid>>]]

\* step 2: windows (s, e, anchor ids) from the sorted hits, merging on overlap
RECURSIVE BuildWindows(_, _, _, _, _)
BuildWindows(plan, hits, i, buflen, windows) ==
  IF i > Len(hits) THEN windows
  ELSE LET pos    == hits[i][1]
           aid    == hits[i][2]
           anchor == IF aid \in DOMAIN plan.anchors THEN plan.anchors[aid] ELSE <<>>
           s      == saturating_sub(pos, WindowBeforeOf(anchor))
           e      == Min(pos + WindowAfterOf(anchor), buflen)
           nw     == Len(windows)
       IN IF nw > 0 /\ s <= windows[nw].e
          THEN BuildWindows(plan, hits, i + 1, buflen,
                 [windows EXCEPT ![nw] = [s |-> windows[nw].s,
                                          e |-> Max(windows[nw].e, e),
                                          aids |-> Append(windows[nw].aids, aid)]])
          ELSE BuildWindows(plan, hits, i + 1, buflen,
                 Append(windows, [s |-> s, e |-> e, aids |-> <<aid>>]))

\* candidate rules that are all the rules of the plan, whatever the window's anchors
RuleSetAll(plan, aids) == DOMAIN plan.rule_patterns

\* the candidate rules of a window: the rules of its anchors
RuleSetOf(plan, aids) ==
  UNION {Range(plan.anchor_to_rules[aids[k]]) :
           k \in {j \in DOMAIN aids : aids[j] \in DOMAIN plan.anchor_to_rules}}

\* a match loop that pushes every match, seen or not
RECURSIVE EmitMatchesNoSeen(_, _, _, _, _, _, _)
EmitMatchesNoSeen(matches, j, acc, buf, base_offset, ws, file_hash) ==
  IF j > Len(matches) THEN acc
  ELSE EmitMatchesNoSeen(matches, j + 1,
         [findings |-> Append(acc.findings,
                         [file_hash |-> file_hash, value |-> from_utf8_lossy(matches[j].raw),
                          start_offset |-> base_offset + matches[j].start - buf.lo]),
          seen |-> acc.seen],
         buf, base_offset, ws, file_hash)

(* The match loop of one rule over one window: matches[j..] are the regex's
   matches in the window; acc = [findings, seen]. *)
RECURSIVE EmitMatches(_, _, _, _, _, _, _)
EmitMatches(matches, j, acc, buf, base_offset, ws, file_hash) ==
  IF j > Len(matches) THEN acc
  ELSE LET start == matches[j].start - (buf.lo + ws)
           end   == matches[j].end - (buf.lo + ws)
           value == from_utf8_lossy(matches[j].raw)
       IN IF end <= start \/ value \in acc.seen
          THEN EmitMatches(matches, j + 1, acc, buf, base_offset, ws, file_hash)
          ELSE EmitMatches(matches, j + 1,
                 [findings |-> Append(acc.findings,
                                 [file_hash |-> file_hash, value |-> value,
                                  start_offset |-> base_offset + ws + start]),
                  seen |-> acc.seen \cup {value}],
                 buf, base_offset, ws, file_hash)

\* the rules of one window, visited in the order `visit`
RECURSIVE ScanWindowRules(_, _, _, _, _, _, _, _)
ScanWindowRules(plan, visit, k, w, acc, buf, base_offset, file_hash) ==
  IF k > Len(visit) THEN acc
  ELSE LET rx == get_or_compile_meta_regex(plan, visit[k])
       IN ScanWindowRules(plan, visit, k + 1, w,
            IF rx = <<>> THEN acc
            ELSE EmitMatches(RegexMatches(rx[1], buf.f.segs, 1, buf.lo + w.s, buf.lo + w.e),
                             1, acc, buf, base_offset, w.s, file_hash),
            buf, base_offset, file_hash)

(* Step 3 over the windows i.. .  rule_set is a HashSet: its iteration order
   is not fixed by the program; window i visits its rules in the order
   orders[i] (cyclically), a permutation of the rule indices. *)
RECURSIVE ScanWindows(_, _, _, _, _, _, _, _)
ScanWindows(plan, windows, i, orders, acc, buf, base_offset, file_hash) ==
  IF i > Len(windows) THEN acc
  ELSE LET rule_set == RuleSetOf(plan, windows[i].aids)
           order    == orders[((i - 1) % Len(orders)) + 1]
           visit    == SelectSeq(order, LAMBDA r : r \in rule_set)
       IN ScanWindows(plan, windows, i + 1, orders,
            ScanWindowRules(plan, visit, 1, windows[i], acc, buf, base_offset, file_hash),
            buf, base_offset, file_hash)

WindowsOf(plan, buf) == BuildWindows(plan, AcHits(plan.anchors, buf, 1), 1, BufLen(buf), <<>>)

\* the findings of one buffer, unsorted
scan_buffer_with_prefilter(buf, base_offset, file_hash, plan, orders) ==
  ScanWindows(plan, WindowsOf(plan, buf), 1, orders,
              [findings |-> <<>>, seen |-> {}], buf, base_offset, file_hash).findings

\* bytes of the noise run r inside [lo, hi)
Overlap(r, lo, hi) == Max(0, Min(hi, r.pos + r.n) - Max(lo, r.pos))

RECURSIVE NoiseCount(_, _, _, _, _)
NoiseCount(noise, kinds, i, lo, hi) ==
  IF i > Len(noise) THEN 0
  ELSE (IF noise[i].kind \in kinds THEN Overlap(noise[i], lo, hi) ELSE 0)
       + NoiseCount(noise, kinds, i + 1, lo, hi)

\* the byte a noise run repeats
ByteOf(kind) ==
  CASE kind = "nul" -> 0
    [] kind = "tab" -> 9
    [] kind = "lf" -> 10
    [] kind = "cr" -> 13
    [] kind = "us" -> 31
    [] kind = "tilde" -> 126
    [] kind = "del" -> 127
    [] kind = "bin" -> 255

NoiseKinds == {"nul", "tab", "lf", "cr", "us", "tilde", "del", "bin"}

\* a test that takes tab, LF and CR for non-printable
printable_no_ws(b) == 32 <= b /\ b <= 126

\* matches!(b, 0x09 | 0x0A | 0x0D) || (0x20..=0x7E).contains(&b)
printable(b) == b \in {9, 10, 13} \/ (32 <= b /\ b <= 126)

\* a sniffer that lets every sample pass
never_binary(f, m) == FALSE

(* is_probably_binary of the file's first m bytes.  Every byte outside the
   noise runs is printable; the f32 quotient is below 0.25 exactly when
   4 * printable < m for the lengths that occur (m <= 2^23). *)
is_probably_binary(f, m) ==
  IF m = 0 THEN FALSE
  ELSE IF NoiseCount(f.noise, {k \in NoiseKinds : ByteOf(k) = 0}, 1, 0, m) > 0 THEN TRUE
  ELSE LET count == m - NoiseCount(f.noise, {k \in NoiseKinds : ~printable(ByteOf(k))}, 1, 0, m)
       IN 4 * count < m

\* Result<Vec<Finding>>
Ok(findings) == [ok |-> TRUE, findings |-> findings]

Err == [ok |-> FALSE, findings |-> <<>>]

scan_file_bytes_prefilter(f, plan, orders) ==
  IF ~f.readable THEN Err
  ELSE IF is_probably_binary(f, f.size) THEN Ok(<<>>)
  ELSE Ok(scan_buffer_with_prefilter([f |-> f, lo |-> 0, hi |-> f.size], 0, f.name, plan, orders))

\* orders as seen by the k-th buffer of a file (each HashSet has its own order)
Rotate(orders, k) == [i \in DOMAIN orders |-> orders[((i - 1 + k) % Len(orders)) + 1]]

(* State of the chunked read loop: carry is the file slice it holds
   ([lo, lo + len)), file_offset the source's counter, rpos the reader's
   position in the file, iter the number of iterations done,
   ret "loop" | "binary" | "eof". *)
ChunkStart ==
  [carry |-> [lo |-> 0, len |-> 0], file_offset |-> 0, rpos |-> 0,
   findings |-> <<>>, seen |-> {}, iter |-> 0, ret |-> "loop"]

\* the chunk assembled from the carry and the n bytes just read
ChunkOf(st, f, n) ==
  [f |-> f, lo |-> IF st.carry.len > 0 THEN st.carry.lo ELSE st.rpos, hi |-> st.rpos + n]

\* a base that forgets the carry in front of the bytes just read
ChunkBaseNoCarry(st) == st.file_offset

\* let base = file_offset.saturating_sub(carry.len())
ChunkBase(st) == saturating_sub(st.file_offset, st.carry.len)

\* a merge that pushes every finding of the chunk
MergePartNoSeen(part, j, acc) ==
  [findings |-> acc.findings \o part, seen |-> acc.seen]

\* for f in part.drain(..) { if seen.insert(f.value.clone()) { findings.push(f) } }
RECURSIVE MergePart(_, _, _)
MergePart(part, j, acc) ==
  IF j > Len(part) THEN acc
  ELSE MergePart(part, j + 1,
         IF part[j].value \in acc.seen THEN acc
         ELSE [findings |-> Append(acc.findings, part[j]),
               seen |-> acc.seen \cup {part[j].value}])

\* an overlap taken from the bytes just read alone
KeepOfRead(st, n) == Min(CHUNK_OVERLAP, n)

\* let keep = CHUNK_OVERLAP.min(carry.len() + n)
Keep(st, n) == Min(CHUNK_OVERLAP, st.carry.len + n)

\* one iteration of the loop, after reader.read returned n
ChunkStep(st, f, n, plan, orders) ==
  IF n = 0 THEN [st EXCEPT !.ret = "eof"]
  ELSE
    LET chunk     == ChunkOf(st, f, n)
        total_len == st.carry.len + n
        sample_len == Min(total_len, SAMPLE_LEN)
    IN IF st.file_offset = 0 /\ is_probably_binary(f, sample_len)
       THEN [st EXCEPT !.findings = <<>>, !.ret = "binary"]
       ELSE
         LET part == scan_buffer_with_prefilter(chunk, ChunkBase(st), f.name, plan,
                                                Rotate(orders, st.iter))
             acc  == MergePart(part, 1, [findings |-> st.findings, seen |-> st.seen])
             keep == Keep(st, n)
         IN [carry |-> IF keep > 0 THEN [lo |-> chunk.lo + total_len - keep, len |-> keep]
                       ELSE [lo |-> chunk.hi, len |-> 0],
             file_offset |-> st.file_offset + n,
             rpos |-> st.rpos + n,
             findings |-> acc.findings,
             seen |-> acc.seen,
             iter |-> st.iter + 1,
             ret |-> "loop"]

(* reader.read(&mut buf): up to CHUNK_SIZE bytes, 0 at end of file.  A read
   may return fewer bytes than asked for: `want` is the size of a short read,
   0 for a full one. *)
ReadLen(f, rpos, want) ==
  LET avail == Min(CHUNK_SIZE, f.size - rpos)
  IN IF want > 0 /\ want < avail THEN want ELSE avail

\* the whole loop; reads[k] is the short-read size of iteration k, if any
RECURSIVE ChunkLoop(_, _, _, _, _)
ChunkLoop(st, f, plan, orders, reads) ==
  IF st.ret # "loop" THEN st
  ELSE LET k == st.iter + 1
           n == ReadLen(f, st.rpos, IF k \in DOMAIN reads THEN reads[k] ELSE 0)
       IN ChunkLoop(ChunkStep(st, f, n, plan, orders), f, plan, orders, reads)

scan_file_bytes_chunked_prefilter(f, plan, orders, reads) ==
  IF ~f.readable THEN Err
  ELSE Ok(ChunkLoop(ChunkStart, f, plan, orders, reads).findings)

(***************************************************************************)
(* Whole-buffer regex scans: lib.rs scan_file_bytes, engine_utf8.rs        *)
(***************************************************************************)

\* DetectorSet*::from_specs: the compiled patterns, in rule order
from_specs(specs) == [r \in DOMAIN specs |-> CompileRegex(specs[r].pat)]

\* captures_iter of each pattern in turn over the whole file, one seen set
RECURSIVE ScanPatterns(_, _, _, _)
ScanPatterns(patterns, k, acc, f) ==
  IF k > Len(patterns) THEN acc
  ELSE ScanPatterns(patterns, k + 1,
         EmitMatches(RegexMatches(patterns[k], f.segs, 1, 0, f.size), 1, acc,
                     [f |-> f, lo |-> 0, hi |-> f.size], 0, 0, f.name),
         f)

scan_file_bytes(f, detectors) ==
  IF ~f.readable THEN Err
  ELSE Ok(ScanPatterns(detectors, 1, [findings |-> <<>>, seen |-> {}], f).findings)

\* read_to_string fails on a byte sequence that is not UTF-8
scan_file_utf8(f, detectors) ==
  IF ~f.readable \/ NoiseCount(f.noise, {"bin"}, 1, 0, f.size) > 0 THEN Err
  ELSE Ok(ScanPatterns(detectors, 1, [findings |-> <<>>, seen |-> {}], f).findings)

(***************************************************************************)
(* Findings (findings.rs)                                                  *)
(***************************************************************************)

\* the bytes of a value
ValueBytes(v) == v.lit \o [i \in 1..v.n |-> v.body]

\* a comparator that puts the shorter value first
FindingLessShortFirst(a, b) ==
  \/ a.start_offset < b.start_offset
  \/ /\ a.start_offset = b.start_offset
     /\ \/ ValueLen(a.value) < ValueLen(b.value)
        \/ /\ ValueLen(b.value) = ValueLen(a.value)
           /\ BytesLess(ValueBytes(a.value), ValueBytes(b.value))

\* the comparator of sort_findings_stable returns Less
FindingLess(a, b) ==
  \/ a.start_offset < b.start_offset
  \/ /\ a.start_offset = b.start_offset
     /\ \/ ValueLen(b.value) < ValueLen(a.value)
        \/ /\ ValueLen(b.value) = ValueLen(a.value)
           /\ BytesLess(ValueBytes(a.value), ValueBytes(b.value))

\* x inserted behind every element that is not greater (stable)
RECURSIVE InsertSorted(_, _)
InsertSorted(sorted, x) ==
  IF sorted = <<>> THEN <<x>>
  ELSE IF FindingLess(x, sorted[1]) THEN <<x>> \o sorted
  ELSE <<sorted[1]>> \o InsertSorted(Tail(sorted), x)

RECURSIVE SortFrom(_, _, _)
SortFrom(findings, i, sorted) ==
  IF i > Len(findings) THEN sorted
  ELSE SortFrom(findings, i + 1, InsertSorted(sorted, findings[i]))

sort_findings_stable(findings) == SortFrom(findings, 1, <<>>)

(***************************************************************************)
(* Inputs: rule files and files of the input directory                     *)
(***************************************************************************)

Seg(pos, lit, body, n) == [pos |-> pos, lit |-> lit, body |-> body, n |-> n]

Noise(pos, n, kind) == [pos |-> pos, n |-> n, kind |-> kind]

File(name, size, segs, noise) ==
  [name |-> name, size |-> size, segs |-> segs, noise |-> noise,
   readable |-> TRUE, meta_ok |-> TRUE, name_utf8 |-> TRUE]

LitSk == <<"s","k","-">>

LitGhp == <<"g","h","p","_">>

LitKeyGhp == <<"k","e","y","=","g","h","p","_">>

RuleOpenai == [id |-> "openai", pat |-> PatOpenai]

RuleGhp == [id |-> "ghp", pat |-> PatGhp]

RuleCtx == [id |-> "ctx", pat |-> PatCtx]

RuleGhu == [id |-> "ghu", pat |-> PatGhu]

\* the rule files a scan is run with (load_rule_specs keeps the file's order)
RuleFiles == { <<RuleOpenai>>, <<RuleGhp>>, <<RuleGhp, RuleCtx>>, <<RuleGhu, RuleGhp>> }

MiB == 1024 * 1024

(* The files a directory is drawn from:
   aaa  scenario S1;  a, b  the same secret, twice in a (S2, S3);
   c    a secret that one rule finds at 0 and another, by its context, at 104;
   big4 scenario S4: ghp_ + 36 at 4_194_300 of 5 MiB;
   big5 a 44-byte token cut by the first chunk's end, and one inside the overlap;
   big6 the token of big4, and the same token near the head of the file;
   long a token longer than a window;
   nul  NUL bytes, then text (S5);  bin  mostly non-printable;
   mix  8 KiB of non-printable bytes, then mostly text;
   bigbin the same head on a chunked file;  bignul a NUL at 5000 of a
   chunked file;  u  a ghu_ token (S6);
   ws   mostly tab, LF and CR bytes;  ctl  mostly 0x1F and 0x7F bytes;
   quarter  exactly a quarter of the bytes printable, ~ among them;  under  one printable
   byte less than a quarter;  empty  no byte at all. *)
Catalogue ==
  { File("aaa", 41, << Seg(7, LitSk, "A", 24) >>, <<>>),
    File("a", 400, << Seg(10, LitGhp, "A", 36), Seg(200, LitGhp, "A", 36) >>, <<>>),
    File("b", 100, << Seg(10, LitGhp, "A", 36) >>, <<>>),
    File("c", 200, << Seg(0, LitGhp, "A", 36), Seg(50, LitGhp, "B", 36),
                      Seg(100, LitKeyGhp, "A", 36) >>, <<>>),
    File("big4", 5 * MiB, << Seg(4194300, LitGhp, "A", 36) >>, <<>>),
    File("big5", 5 * MiB, << Seg(4193904, LitGhp, "B", 36),
                             Seg(4194262, LitGhp, "A", 40) >>, <<>>),
    File("big6", 5 * MiB, << Seg(100, LitGhp, "A", 36), Seg(4194300, LitGhp, "A", 36) >>, <<>>),
    File("long", 5000, << Seg(10, LitKeyGhp, "A", 2000) >>, <<>>),
    File("nul", 300, << Seg(100, LitGhp, "A", 36) >>, << Noise(0, 4, "nul") >>),
    File("bin", 300, << Seg(100, LitGhp, "A", 36) >>, << Noise(0, 90, "bin"), Noise(150, 140, "bin") >>),
    File("mix", 65536, << Seg(10000, LitGhp, "A", 36) >>, << Noise(0, 8192, "bin") >>),
    File("bigbin", 2 * MiB, << Seg(10000, LitGhp, "A", 36) >>, << Noise(0, 8192, "bin") >>),
    File("bignul", 2 * MiB, << Seg(10000, LitGhp, "A", 36) >>, << Noise(5000, 1, "nul") >>),
    File("u", 100, << Seg(10, <<"g","h","u","_">>, "A", 36) >>, <<>>),
    File("ws", 300, << Seg(100, LitGhp, "A", 36) >>,
         << Noise(0, 50, "tab"), Noise(50, 40, "lf"), Noise(150, 140, "cr") >>),
    File("ctl", 300, << Seg(100, LitGhp, "A", 36) >>, << Noise(0, 90, "us"), Noise(150, 140, "del") >>),
    File("quarter", 400, << Seg(0, LitGhp, "A", 36) >>,
         << Noise(40, 60, "tilde"), Noise(100, 300, "bin") >>),
    File("under", 400, << Seg(0, LitGhp, "A", 36) >>, << Noise(99, 301, "bin") >>),
    File("empty", 0, <<>>, <<>>) }

\* Ord of file names, as strings of one-byte characters
NameBytes(name) ==
  CASE name = "aaa" -> <<"a","a","a">>
    [] name = "a" -> <<"a">>
    [] name = "b" -> <<"b">>
    [] name = "c" -> <<"c">>
    [] name = "big4" -> <<"b","i","g","4">>
    [] name = "big5" -> <<"b","i","g","5">>
    [] name = "big6" -> <<"b","i","g","6">>
    [] name = "long" -> <<"l","o","n","g">>
    [] name = "nul" -> <<"n","u","l">>
    [] name = "bin" -> <<"b","i","n">>
    [] name = "mix" -> <<"m","i","x">>
    [] name = "bigbin" -> <<"b","i","g","b","i","n">>
    [] name = "bignul" -> <<"b","i","g","n","u","l">>
    [] name = "u" -> <<"u">>
    [] name = "a1" -> <<"a","1">>
    [] name = "b1" -> <<"b","1">>
    [] name = "z1" -> <<"z","1">>
    [] name = "both" -> <<"b","o","t","h">>

\* files.sort_by(|a, b| a.file_name().cmp(&b.file_name())) of the walked entries
RECURSIVE SortByName(_)
SortByName(S) ==
  IF S = {} THEN <<>>
  ELSE LET f == CHOOSE x \in S : \A y \in S \ {x} : BytesLess(NameBytes(x.name), NameBytes(y.name))
       IN <<f>> \o SortByName(S \ {f})

\* largest number of files in the directory
MaxFiles == 2

\* number of hash orders a file scan draws (one per window, cyclically)
NumOrders == 2

\* the files an input directory is made of
DirFiles == {f \in Catalogue : f.name \in {"aaa", "a", "b", "c", "big5", "nul", "u"}}

Directories == {D \in SUBSET DirFiles : Cardinality(D) \in 1..MaxFiles}

Perms(n) == {p \in [1..n -> 1..n] : \A i, j \in 1..n : p[i] = p[j] => i = j}

OrderChoices(n) == [1..NumOrders -> Perms(n)]

(***************************************************************************)
(* scan_and_write (scan.rs)                                                *)
(*                                                                         *)
(* The same directory and rule file are scanned twice: with threads = 1    *)
(* (the sequential path) and, under the bytes engine, with threads > 1     *)
(* (the parallel dispatcher).                                              *)
(***************************************************************************)

VARIABLES
  rules,       \* the rule specs load_rule_specs returned
  files,       \* the directory's files, sorted by name
  engine,      \* opts.engine: "Bytes" | "Utf8"
  threads,     \* opts.threads of the parallel run
  max_file_size, \* opts.max_file_size: <<>> (None) or <<max>>
  pc,          \* "start" | "seq" | "par_start" | "par" | "done"
  seq_i,       \* sequential run: index of the next file
  out_seq,     \* sequential run: what was written to `out`
  first_seq,   \* sequential run: `first`
  stats_seq,   \* sequential run: ScanStats
  found_seq,   \* sequential run: the findings each scanned file returned
  todo,        \* parallel run: file indices no worker has taken yet
  worker,      \* parallel run: per pool thread, the message it is about to send
  chan,        \* parallel run: the bounded channel
  next_idx,    \* writer: next index to emit
  buffer,      \* writer: the gap buffer, idx -> message
  out_par,     \* parallel run: what was written to `out`
  first_par,   \* parallel run: `first`
  stats_par,   \* parallel run: ScanStats
  sent,        \* parallel run: per file index, the number of tx.send calls made for it
  emitted,     \* writer: the indices it removed from the buffer and wrote, in order
  scan_pc,     \* one file, path by path: "idle" | "whole" | "naive" | "utf8" | "chunk" | "end"
  scan_orders, \* one file: the hash orders of its scans
  whole_res,   \* one file: <<scan_file_bytes_prefilter's result>>
  naive_res,   \* one file: <<scan_file_bytes's result>>
  utf8_res,    \* one file: <<scan_file_utf8's result>>
  chunk_st,    \* one file: the state of scan_file_bytes_chunked_prefilter's loop
  read_log,    \* one file: what reader.read returned, call by call
  pl_pc,       \* one buffer: the stage of the prefilter pipeline that runs next
  pl_entries,  \* one buffer: the [[rules]] entries of the rule file
  pl_plan,     \* one buffer: the PrefilterPlan
  pl_hits,     \* one buffer: `hits`, the automaton's (start, anchor id) pairs
  pl_windows,  \* one buffer: `windows`
  pl_orders,   \* one buffer: the iteration order of each window's rule_set
  pl_findings, \* one buffer: the findings scan_buffer_with_prefilter returned
  sort_once,   \* a findings list after one sort_findings_stable
  sort_twice,  \* the same list after a second sort_findings_stable
  cache,       \* plan.cache: rule index -> compiled regex
  rx_worker,   \* per thread of a scan that shares plan.cache: where it is in its buffer
  cache_log,   \* per rule index, the MetaRegex::new calls that returned Ok and the cache inserts
  mloop,       \* the match loop of one rule over one window: re, window, at, findings, seen
  ld           \* the head of scan_and_write: the rules file on disk, the error returned, walked

vars == <<rules, files, engine, threads, max_file_size, pc, seq_i, out_seq, first_seq, stats_seq,
          found_seq, todo, worker, chan, next_idx, buffer, out_par, first_par, stats_par,
          sent, emitted,
          scan_pc, scan_orders, whole_res, naive_res, utf8_res, chunk_st, read_log,
          pl_pc, pl_entries, pl_plan, pl_hits, pl_windows, pl_orders, pl_findings,
          sort_once, sort_twice, cache, rx_worker, cache_log, mloop, ld>>

seq_vars == <<seq_i, out_seq, first_seq, stats_seq, found_seq>>

par_vars == <<todo, worker, chan, next_idx, buffer, out_par, first_par, stats_par, sent, emitted>>

input_vars == <<rules, files, engine, threads, max_file_size>>

scan_vars == <<scan_pc, scan_orders, whole_res, naive_res, utf8_res, chunk_st, read_log>>

cache_vars == <<cache, rx_worker, cache_log>>

plan_vars == <<pl_pc, pl_entries, pl_plan, pl_hits, pl_windows, pl_orders, pl_findings,
               sort_once, sort_twice>>

\* capacity of channel::bounded
CHANNEL_CAP == 256

\* largest thread count of the parallel run
MaxThreads == 2

NoValue == [lit |-> <<>>, body |-> "", n |-> 0]

\* what `out` receives: "[", ",", "]" and the serialized items
Punct(t) == [t |-> t, file_hash |-> "", value |-> NoValue]

\* serde_json::json!({ "file_hash": f.file_hash, "value": f.value })
JsonItem(f) == [t |-> "item", file_hash |-> f.file_hash, value |-> f.value]

\* a write loop that puts a comma before every item, the first included
RECURSIVE WriteFindingsCommaFirst(_, _, _)
WriteFindingsCommaFirst(findings, j, w) ==
  IF j > Len(findings) THEN w
  ELSE WriteFindingsCommaFirst(findings, j + 1,
         [out |-> Append(w.out, Punct(",")) \o <<JsonItem(findings[j])>>,
          first |-> FALSE,
          outputs_written |-> w.outputs_written + 1])

\* a write loop that drops an item whose value the output already holds
RECURSIVE WriteFindingsGlobalSeen(_, _, _)
WriteFindingsGlobalSeen(findings, j, w) ==
  IF j > Len(findings) THEN w
  ELSE WriteFindingsGlobalSeen(findings, j + 1,
         IF \E k \in DOMAIN w.out : w.out[k].t = "item" /\ w.out[k].value = findings[j].value
         THEN w
         ELSE [out |-> (IF ~w.first THEN Append(w.out, Punct(",")) ELSE w.out)
                         \o <<JsonItem(findings[j])>>,
               first |-> FALSE,
               outputs_written |-> w.outputs_written + 1])

\* the loop over one file's findings: w = [out, first, outputs_written]
RECURSIVE WriteFindings(_, _, _)
WriteFindings(findings, j, w) ==
  IF j > Len(findings) THEN w
  ELSE WriteFindings(findings, j + 1,
         [out |-> (IF ~w.first THEN Append(w.out, Punct(",")) ELSE w.out)
                    \o <<JsonItem(findings[j])>>,
          first |-> FALSE,
          outputs_written |-> w.outputs_written + 1])

\* a loader that prefers the regex field
RECURSIVE load_regex_first(_)
load_regex_first(entries) ==
  IF entries = <<>> THEN <<>>
  ELSE LET e == Head(entries)
       IN (IF e.regex # <<>> THEN <<[id |-> e.id, pat |-> e.regex[1]]>>
           ELSE IF e.pattern # <<>> THEN <<[id |-> e.id, pat |-> e.pattern[1]]>>
           ELSE <<>>)
          \o load_regex_first(Tail(entries))

(* rules.rs load_rule_specs over the parsed [[rules]] entries.  An entry is
   [id, pattern, regex]; an Option is <<>> (None) or <<x>> (Some(x)).  The
   name of an entry plays no part in a scan and is left out. *)
RECURSIVE load_rule_specs(_)
load_rule_specs(entries) ==
  IF entries = <<>> THEN <<>>
  ELSE LET e == Head(entries)
       IN (IF e.pattern # <<>> THEN <<[id |-> e.id, pat |-> e.pattern[1]]>>
           ELSE IF e.regex # <<>> THEN <<[id |-> e.id, pat |-> e.regex[1]]>>
           ELSE <<>>)
          \o load_rule_specs(Tail(entries))

\* build_prefilter_plan of each rule file
PlanOf == [rf \in RuleFiles |-> build_prefilter_plan(rf)]

\* the plan the bytes engine is initialised with
Plan == PlanOf[rules]

\* the size gate: the file is skipped when its metadata can be read and its length exceeds max
SizeGated(f) == max_file_size # <<>> /\ f.meta_ok /\ f.size > max_file_size[1]

(* The read strategy both paths choose from the file's metadata.  The
   directory holds regular files: every read of the chunked path is full. *)
ScanBytes(f, orders) ==
  IF ~f.meta_ok THEN Err
  ELSE IF f.size <= SMALL_FILE_MAX THEN scan_file_bytes_prefilter(f, Plan, orders)
  ELSE scan_file_bytes_chunked_prefilter(f, Plan, orders, <<>>)

\* sequential path, one file: <<>> when the file is skipped, else <<res>>
SeqScanFile(f, orders) ==
  IF ~f.name_utf8 THEN <<>>
  ELSE IF SizeGated(f) THEN <<>>
  ELSE IF engine = "Bytes" THEN <<ScanBytes(f, orders)>>
  ELSE <<scan_file_utf8(f, from_specs(rules))>>

\* a worker that reports a failed scan as a scanned file
WorkerMsgErrScanned(idx, f, orders) ==
  IF ~f.name_utf8 THEN [idx |-> idx, findings |-> <<>>, scanned |-> FALSE]
  ELSE IF SizeGated(f) THEN [idx |-> idx, findings |-> <<>>, scanned |-> FALSE]
  ELSE LET findings_res == ScanBytes(f, orders)
       IN [idx |-> idx,
           findings |-> IF findings_res.ok THEN sort_findings_stable(findings_res.findings)
                        ELSE <<>>,
           scanned |-> TRUE]

\* the (idx, findings, scanned) message a worker sends for one file
WorkerMsg(idx, f, orders) ==
  IF ~f.name_utf8 THEN [idx |-> idx, findings |-> <<>>, scanned |-> FALSE]
  ELSE IF SizeGated(f) THEN [idx |-> idx, findings |-> <<>>, scanned |-> FALSE]
  ELSE LET findings_res == ScanBytes(f, orders)
       IN IF findings_res.ok
          THEN [idx |-> idx, findings |-> sort_findings_stable(findings_res.findings),
                scanned |-> TRUE]
          ELSE [idx |-> idx, findings |-> <<>>, scanned |-> FALSE]

Idle == [idx |-> 0, findings |-> <<>>, scanned |-> FALSE]

\* nothing written, nothing taken, nothing sent
RunsNotStarted ==
  /\ seq_i = 1
  /\ out_seq = <<>>
  /\ first_seq = TRUE
  /\ stats_seq = [files_scanned |-> 0, outputs_written |-> 0]
  /\ found_seq = <<>>
  /\ todo = {}
  /\ worker = [w \in 1..threads |-> Idle]
  /\ chan = <<>>
  /\ next_idx = 1
  /\ buffer = {}
  /\ out_par = <<>>
  /\ first_par = TRUE
  /\ stats_par = [files_scanned |-> 0, outputs_written |-> 0]
  /\ sent = <<>>
  /\ emitted = <<>>

\* the head of scan_and_write is not run: the rule specs are given
LoadIdle == ld = <<>>

\* no match loop is run on its own
LoopIdle == mloop = <<>>

\* no scan that shares plan.cache is run
CacheIdle ==
  /\ cache = <<>>
  /\ rx_worker = <<>>
  /\ cache_log = <<>>

\* the pipeline of one buffer is not run
PlanIdle ==
  /\ pl_pc = "idle"
  /\ pl_entries = <<>>
  /\ pl_plan = build_prefilter_plan(<<>>)
  /\ pl_hits = <<>>
  /\ pl_windows = <<>>
  /\ pl_orders = <<>>
  /\ pl_findings = <<>>
  /\ sort_once = <<>>
  /\ sort_twice = <<>>

Init ==
  /\ rules \in RuleFiles
  /\ files \in {SortByName(D) : D \in Directories}
  /\ engine \in {"Bytes", "Utf8"}
  /\ threads \in 2..MaxThreads
  /\ max_file_size = <<>>
  /\ pc = "start"
  /\ RunsNotStarted
  /\ scan_pc = "idle"
  /\ scan_orders = <<>>
  /\ whole_res = <<>>
  /\ naive_res = <<>>
  /\ utf8_res = <<>>
  /\ chunk_st = ChunkStart
  /\ read_log = <<>>
  /\ PlanIdle
  /\ CacheIdle
  /\ LoopIdle
  /\ LoadIdle

\* write!(out, "[") of the sequential path
SeqBegin ==
  /\ pc = "start"
  /\ out_seq' = <<Punct("[")>>
  /\ pc' = "seq"
  /\ UNCHANGED <<ld, mloop, cache_vars, input_vars, plan_vars, scan_vars, seq_i, first_seq, stats_seq, found_seq, par_vars>>

\* one iteration of `for path in files`
SeqFile ==
  /\ pc = "seq"
  /\ seq_i <= Len(files)
  /\ \E orders \in OrderChoices(Len(rules)) :
       LET res == SeqScanFile(files[seq_i], orders)
       IN IF res # <<>> /\ res[1].ok
          THEN LET findings == sort_findings_stable(res[1].findings)
                   w == WriteFindings(findings, 1,
                          [out |-> out_seq, first |-> first_seq,
                           outputs_written |-> stats_seq.outputs_written])
               IN /\ out_seq' = w.out
                  /\ first_seq' = w.first
                  /\ stats_seq' = [files_scanned |-> stats_seq.files_scanned + 1,
                                   outputs_written |-> w.outputs_written]
                  /\ found_seq' = Append(found_seq, [idx |-> seq_i, findings |-> res[1].findings])
          ELSE UNCHANGED <<out_seq, first_seq, stats_seq, found_seq>>
  /\ seq_i' = seq_i + 1
  /\ UNCHANGED <<ld, mloop, cache_vars, input_vars, plan_vars, scan_vars, pc, par_vars>>

\* write!(out, "]"); Ok(stats)
SeqEnd ==
  /\ pc = "seq"
  /\ seq_i > Len(files)
  /\ out_seq' = Append(out_seq, Punct("]"))
  /\ pc' = IF engine = "Bytes" THEN "par_start" ELSE "done"
  /\ UNCHANGED <<ld, mloop, cache_vars, input_vars, plan_vars, scan_vars, seq_i, first_seq, stats_seq, found_seq, par_vars>>

\* write!(out, "["), the channel, the scan thread and its pool
ParBegin ==
  /\ pc = "par_start"
  /\ out_par' = <<Punct("[")>>
  /\ todo' = DOMAIN files
  /\ sent' = [i \in DOMAIN files |-> 0]
  /\ pc' = "par"
  /\ UNCHANGED <<ld, mloop, cache_vars, input_vars, plan_vars, scan_vars, seq_vars, worker, chan, next_idx, buffer, first_par, stats_par, emitted>>

\* a pool thread takes a file of the parallel iterator and scans it
WorkerScan(w) ==
  /\ pc = "par"
  /\ worker[w] = Idle
  /\ \E idx \in todo, orders \in OrderChoices(Len(rules)) :
       /\ worker' = [worker EXCEPT ![w] = WorkerMsg(idx, files[idx], orders)]
       /\ todo' = todo \ {idx}
  /\ UNCHANGED <<ld, mloop, cache_vars, input_vars, plan_vars, scan_vars, pc, seq_vars, chan, next_idx, buffer, out_par, first_par, stats_par, sent, emitted>>

\* tx.send: blocks while the channel is full
WorkerSend(w) ==
  /\ pc = "par"
  /\ worker[w] # Idle
  /\ Len(chan) < CHANNEL_CAP
  /\ chan' = Append(chan, worker[w])
  /\ sent' = [sent EXCEPT ![worker[w].idx] = @ + 1]
  /\ worker' = [worker EXCEPT ![w] = Idle]
  /\ UNCHANGED <<ld, mloop, cache_vars, input_vars, plan_vars, scan_vars, pc, seq_vars, todo, next_idx, buffer, out_par, first_par, stats_par, emitted>>

\* a writer without the gap discipline: it takes whichever entry it holds
BufferRemoveAny(buf, idx) ==
  IF buf # {} THEN <<CHOOSE m \in buf : \A x \in buf : x.idx <= m.idx>> ELSE <<>>

\* buffer.remove(&next_idx): <<>> is None, <<m>> is Some(m)
BufferRemove(buf, idx) ==
  IF \E m \in buf : m.idx = idx THEN <<CHOOSE m \in buf : m.idx = idx>> ELSE <<>>

\* BTreeMap::insert: replaces the entry of the same key
BufferInsert(buf, m) == {x \in buf : x.idx # m.idx} \cup {m}

\* a flush that stops after the first ready entry instead of draining the run
FlushOnce(fl) ==
  IF BufferRemove(fl.buffer, fl.next_idx) = <<>> THEN fl
  ELSE LET m == BufferRemove(fl.buffer, fl.next_idx)[1]
           findings == sort_findings_stable(m.findings)
           w == WriteFindings(findings, 1,
                  [out |-> fl.out, first |-> fl.first,
                   outputs_written |-> fl.stats.outputs_written])
       IN [buffer |-> fl.buffer \ {m},
           next_idx |-> fl.next_idx + 1,
           emitted |-> Append(fl.emitted, m.idx),
           out |-> w.out,
           first |-> w.first,
           stats |-> [files_scanned |-> fl.stats.files_scanned
                                         + (IF m.scanned THEN 1 ELSE 0),
                      outputs_written |-> w.outputs_written]]

\* a flush that counts every message as a scanned file
RECURSIVE FlushCountsAll(_)
FlushCountsAll(fl) ==
  IF BufferRemove(fl.buffer, fl.next_idx) = <<>> THEN fl
  ELSE LET m == BufferRemove(fl.buffer, fl.next_idx)[1]
           findings == sort_findings_stable(m.findings)
           w == WriteFindings(findings, 1,
                  [out |-> fl.out, first |-> fl.first,
                   outputs_written |-> fl.stats.outputs_written])
       IN FlushCountsAll([buffer |-> fl.buffer \ {m},
                          next_idx |-> fl.next_idx + 1,
                          emitted |-> Append(fl.emitted, m.idx),
                          out |-> w.out,
                          first |-> w.first,
                          stats |-> [files_scanned |-> fl.stats.files_scanned + 1,
                                     outputs_written |-> w.outputs_written]])

(* while let Some(..) = buffer.remove(&next_idx) { .. next_idx += 1 }
   on fl = [buffer, next_idx, emitted, out, first, stats] *)
RECURSIVE Flush(_)
Flush(fl) ==
  IF BufferRemove(fl.buffer, fl.next_idx) = <<>> THEN fl
  ELSE LET m == BufferRemove(fl.buffer, fl.next_idx)[1]
           findings == sort_findings_stable(m.findings)
           w == WriteFindings(findings, 1,
                  [out |-> fl.out, first |-> fl.first,
                   outputs_written |-> fl.stats.outputs_written])
       IN Flush([buffer |-> fl.buffer \ {m},
                 next_idx |-> fl.next_idx + 1,
                 emitted |-> Append(fl.emitted, m.idx),
                 out |-> w.out,
                 first |-> w.first,
                 stats |-> [files_scanned |-> fl.stats.files_scanned
                                               + (IF m.scanned THEN 1 ELSE 0),
                            outputs_written |-> w.outputs_written]])

\* one iteration of `while let Ok(..) = rx.recv()`: insert, then flush in order
WriterRecv ==
  /\ pc = "par"
  /\ chan # <<>>
  /\ LET fl == Flush([buffer |-> BufferInsert(buffer, Head(chan)), next_idx |-> next_idx,
                      emitted |-> emitted,
                      out |-> out_par, first |-> first_par, stats |-> stats_par])
     IN /\ buffer' = fl.buffer
        /\ next_idx' = fl.next_idx
        /\ emitted' = fl.emitted
        /\ out_par' = fl.out
        /\ first_par' = fl.first
        /\ stats_par' = fl.stats
  /\ chan' = Tail(chan)
  /\ UNCHANGED <<ld, mloop, cache_vars, input_vars, plan_vars, scan_vars, pc, seq_vars, todo, worker, sent>>

\* the channel as the writer sees it when a Sender outlives the pool: recv never fails
ChannelNeverClosed == FALSE

\* every sender is dropped and the channel is drained
ChannelClosed ==
  /\ todo = {}
  /\ \A w \in DOMAIN worker : worker[w] = Idle
  /\ chan = <<>>

\* recv fails: join the scan thread, flush the residue, write!(out, "]")
WriterEnd ==
  /\ pc = "par"
  /\ ChannelClosed
  /\ LET fl == Flush([buffer |-> buffer, next_idx |-> next_idx,
                      emitted |-> emitted,
                      out |-> out_par, first |-> first_par, stats |-> stats_par])
     IN /\ buffer' = fl.buffer
        /\ next_idx' = fl.next_idx
        /\ emitted' = fl.emitted
        /\ out_par' = Append(fl.out, Punct("]"))
        /\ first_par' = fl.first
        /\ stats_par' = fl.stats
  /\ pc' = "done"
  /\ UNCHANGED <<ld, mloop, cache_vars, input_vars, plan_vars, scan_vars, seq_vars, todo, worker, chan, sent>>

Next ==
  \/ SeqBegin
  \/ SeqFile
  \/ SeqEnd
  \/ ParBegin
  \/ \E w \in 1..threads : WorkerScan(w)
  \/ \E w \in 1..threads : WorkerSend(w)
  \/ WriterRecv
  \/ WriterEnd

Spec == Init /\ [][Next]_vars

(* The files of a directory in which scans fail or the size gate applies:
   a, b, c, mix  as in the catalogue (mix does not decode as UTF-8);
   a1  cannot be opened;  b1  its metadata cannot be read, its content can;
   z1  its file name is not UTF-8 *)
FaultFiles ==
  { f \in Catalogue : f.name \in {"a", "b", "c", "mix"} }
  \cup
  { [File("a1", 100, << Seg(10, LitGhp, "B", 36) >>, <<>>) EXCEPT !.readable = FALSE],
    [File("b1", 500, << Seg(10, LitGhp, "B", 36) >>, <<>>) EXCEPT !.meta_ok = FALSE],
    [File("z1", 60, << Seg(10, LitGhp, "B", 36) >>, <<>>) EXCEPT !.name_utf8 = FALSE] }

\* opts.max_file_size of these runs: None, or the size of file b
GateSizes == {<<>>, <<100>>}

\* the dispatcher started on such a directory
InitFaults ==
  /\ rules \in {<<RuleGhp>>, <<RuleGhp, RuleCtx>>}
  /\ files \in {SortByName(D) : D \in {E \in SUBSET FaultFiles : Cardinality(E) <= MaxFiles}}
  /\ engine \in {"Bytes", "Utf8"}
  /\ threads \in 2..MaxThreads
  /\ max_file_size \in GateSizes
  /\ pc = "start"
  /\ RunsNotStarted
  /\ scan_pc = "idle"
  /\ scan_orders = <<>>
  /\ whole_res = <<>>
  /\ naive_res = <<>>
  /\ utf8_res = <<>>
  /\ chunk_st = ChunkStart
  /\ read_log = <<>>
  /\ PlanIdle
  /\ CacheIdle
  /\ LoopIdle
  /\ LoadIdle

SpecFaults == InitFaults /\ [][Next]_vars

(***************************************************************************)
(* Properties of the directory scan                                        *)
(***************************************************************************)

\* the items of an output, in order
Items(out) == SelectSeq(out, LAMBDA x : x.t = "item")

\* the sorted index of the file an item belongs to
FileIdx(item) == CHOOSE i \in DOMAIN files : files[i].name = item.file_hash

\* the hash order in which every set iterates by ascending rule index
AscendingOrders == [k \in 1..NumOrders |-> [r \in 1..Len(rules) |-> r]]

\* the items a sequential run writes for files i.. when every hash set iterates in ascending order
RECURSIVE RefItems(_)
RefItems(i) ==
  IF i > Len(files) THEN <<>>
  ELSE LET res == SeqScanFile(files[i], AscendingOrders)
       IN (IF res # <<>> /\ res[1].ok
           THEN [j \in DOMAIN res[1].findings |-> JsonItem(sort_findings_stable(res[1].findings)[j])]
           ELSE <<>>)
          \o RefItems(i + 1)

\* C1: once both runs have returned, the parallel run has written the same
\* bytes as the sequential run
C1_ParallelEqualsSequential ==
  (pc = "done" /\ engine = "Bytes") => out_par = out_seq

\* C2: in the parallel path the written items are grouped by file, the files
\* in ascending order of their sorted index, whatever the order of arrival
C2_FilesInSortedOrder ==
  \A i, j \in DOMAIN Items(out_par) :
     i < j => FileIdx(Items(out_par)[i]) <= FileIdx(Items(out_par)[j])

\* C2 witness: the findings of the second file arrived first and the writer
\* holds them back
C2_Witness ==
  /\ pc = "par"
  /\ next_idx = 1
  /\ \E m \in buffer : m.idx = 2 /\ m.findings # <<>>
  /\ \E w \in DOMAIN worker : worker[w].idx = 1 /\ worker[w].findings # <<>>

\* C3: the output of a run is a function of the rule file and the directory:
\* every run writes the items of the run whose hash sets iterate in ascending order
C3_Deterministic ==
  /\ pc \in {"par_start", "par", "done"} => Items(out_seq) = RefItems(1)
  /\ pc = "done" /\ engine = "Bytes" => Items(out_par) = RefItems(1)

\* C6: no (file_hash, value) pair is written twice
C6_NoDuplicatePair ==
  \A out \in {out_seq, out_par} :
     \A i, j \in DOMAIN Items(out) : Items(out)[i] = Items(out)[j] => i = j

\* C6 witness: a file holding the same secret twice was scanned by both runs
\* and each wrote one item for it
C6_Witness ==
  /\ pc = "done" /\ engine = "Bytes"
  /\ \E i \in DOMAIN files :
       /\ files[i].name = "a"
       /\ \A out \in {out_seq, out_par} :
            Cardinality({k \in DOMAIN Items(out) : Items(out)[k].file_hash = "a"}) = 1

\* C9: scenario S1 under the bytes engine writes the single item of file aaa
C9_S1_Output ==
  ( /\ pc = "done" /\ engine = "Bytes"
    /\ rules = <<RuleOpenai>>
    /\ Len(files) = 1 /\ files[1].name = "aaa" )
  => out_seq = << Punct("["),
                  [t |-> "item", file_hash |-> "aaa",
                   value |-> [lit |-> LitSk, body |-> "A", n |-> 24]],
                  Punct("]") >>

(***************************************************************************)
(* The scan paths of one file, side by side                                *)
(*                                                                         *)
(* One file is scanned by scan_file_bytes_prefilter (whole buffer), by the *)
(* regex-only scan_file_bytes, by scan_file_utf8 and, read by read, by     *)
(* scan_file_bytes_chunked_prefilter, whose reader may return short reads. *)
(***************************************************************************)

\* the size of a short read
ShortRead == 300

\* largest number of short reads of one file
MaxShortReads == 1

\* the file under scan
TheFile == files[1]

IsShort(n) == n = ShortRead

\* what reader.read(&mut buf) may return at this position
ReadSizes ==
  {ReadLen(TheFile, chunk_st.rpos, 0)}
  \cup (IF Len(SelectSeq(read_log, IsShort)) < MaxShortReads
        THEN {ReadLen(TheFile, chunk_st.rpos, ShortRead)} ELSE {})

InitScan ==
  /\ rules \in RuleFiles
  /\ files \in {<<f>> : f \in Catalogue}
  /\ engine = "Bytes"
  /\ threads = 2
  /\ max_file_size = <<>>
  /\ pc = "scan"
  /\ RunsNotStarted
  /\ scan_pc = "whole"
  /\ scan_orders \in OrderChoices(Len(rules))
  /\ whole_res = <<>>
  /\ naive_res = <<>>
  /\ utf8_res = <<>>
  /\ chunk_st = ChunkStart
  /\ read_log = <<>>
  /\ PlanIdle
  /\ CacheIdle
  /\ LoopIdle
  /\ LoadIdle

\* scan_file_bytes_prefilter(path, file_hash, plan)
WholeScan ==
  /\ scan_pc = "whole"
  /\ whole_res' = <<scan_file_bytes_prefilter(TheFile, Plan, scan_orders)>>
  /\ scan_pc' = "naive"
  /\ UNCHANGED <<ld, mloop, cache_vars, input_vars, plan_vars, pc, seq_vars, par_vars, scan_orders, naive_res, utf8_res, chunk_st, read_log>>

\* scan_file_bytes(path, file_hash, detectors)
NaiveScan ==
  /\ scan_pc = "naive"
  /\ naive_res' = <<scan_file_bytes(TheFile, from_specs(rules))>>
  /\ scan_pc' = "utf8"
  /\ UNCHANGED <<ld, mloop, cache_vars, input_vars, plan_vars, pc, seq_vars, par_vars, scan_orders, whole_res, utf8_res, chunk_st, read_log>>

\* scan_file_utf8(path, file_hash, detectors)
Utf8Scan ==
  /\ scan_pc = "utf8"
  /\ utf8_res' = <<scan_file_utf8(TheFile, from_specs(rules))>>
  /\ scan_pc' = "chunk"
  /\ UNCHANGED <<ld, mloop, cache_vars, input_vars, plan_vars, pc, seq_vars, par_vars, scan_orders, whole_res, naive_res, chunk_st, read_log>>

\* one iteration of the loop of scan_file_bytes_chunked_prefilter
ChunkRead ==
  /\ scan_pc = "chunk"
  /\ chunk_st.ret = "loop"
  /\ \E n \in ReadSizes :
       /\ chunk_st' = ChunkStep(chunk_st, TheFile, n, Plan, scan_orders)
       /\ read_log' = Append(read_log, n)
  /\ UNCHANGED <<ld, mloop, cache_vars, input_vars, plan_vars, pc, seq_vars, par_vars, scan_pc, scan_orders, whole_res, naive_res, utf8_res>>

\* the loop is left: Ok(findings)
ChunkReturn ==
  /\ scan_pc = "chunk"
  /\ chunk_st.ret # "loop"
  /\ scan_pc' = "end"
  /\ UNCHANGED <<ld, mloop, cache_vars, input_vars, plan_vars, pc, seq_vars, par_vars, scan_orders, whole_res, naive_res, utf8_res, chunk_st, read_log>>

NextScan ==
  \/ WholeScan
  \/ NaiveScan
  \/ Utf8Scan
  \/ ChunkRead
  \/ ChunkReturn

SpecScan == InitScan /\ [][NextScan]_vars

(***************************************************************************)
(* Properties of the scan paths of one file                                *)
(***************************************************************************)

\* the (value, start_offset) pairs of a list of findings
FindingSet(findings) ==
  {<<findings[i].value, findings[i].start_offset>> : i \in DOMAIN findings}

\* the values of a list of findings
ValueSet(findings) == {findings[i].value : i \in DOMAIN findings}

\* the matches the rules' regexes have in the whole file
FileMatches ==
  UNION { Range(RegexMatches(CompileRegex(rules[r].pat), TheFile.segs, 1, 0, TheFile.size))
          : r \in DOMAIN rules }

\* the longest text the regex matches is at most CHUNK_OVERLAP bytes long
LongestMatchFits(rx) ==
  /\ rx.max # Unbounded
  /\ \A a \in rx.lits : Len(a) + rx.max <= CHUNK_OVERLAP

\* the rule has anchors, and each of them occurs in every text the rule matches
AnchorsNecessary(rule) ==
  LET anchors == extract_anchors_from_pattern(rule.pat)
  IN /\ anchors # <<>>
     /\ \A i \in DOMAIN anchors :
          \A a \in CompileRegex(rule.pat).lits : Contains(a, anchors[i])

\* the first m bytes of the file hold a NUL, or less than a quarter of them is printable
SampleBinary(f, m) ==
  /\ m > 0
  /\ \/ \E i \in DOMAIN f.noise :
          f.noise[i].kind = "nul" /\ f.noise[i].n > 0 /\ f.noise[i].pos < m
     \/ 4 * (m - NoiseCount(f.noise, {"nul", "us", "del", "bin"}, 1, 0, m)) < m

\* the bytes of the file at off are the bytes of the value v
FileHas(f, off, v) ==
  \E i \in DOMAIN f.segs :
     LET seg == f.segs[i]
         d   == Len(seg.lit) - Len(v.lit)
     IN /\ d >= 0
        /\ off = seg.pos + d
        /\ SubSeq(seg.lit, d + 1, Len(seg.lit)) = v.lit
        /\ v.body = seg.body
        /\ v.n <= seg.n
        /\ off + Len(v.lit) + v.n <= f.size

\* the file position after the first k reads
RECURSIVE ReadEnd(_)
ReadEnd(k) == IF k = 0 THEN 0 ELSE ReadEnd(k - 1) + read_log[k]

\* the positions at which one chunk ended and the next read began
Boundaries == {ReadEnd(k) : k \in DOMAIN read_log} \ {0, TheFile.size}

Straddles(m, P) == m.m0s < P /\ P < m.m0e

InOverlap(m, P) == P - CHUNK_OVERLAP <= m.m0s /\ m.m0e <= P

\* the findings of the chunked scan that carry the value of the match m
FindingsOf(m) ==
  {i \in DOMAIN chunk_st.findings : chunk_st.findings[i].value = from_utf8_lossy(m.raw)}

\* C4: under rules whose longest match fits the overlap, the chunked scan
\* and the whole-buffer scan of a text file return the same set of
\* (value, start_offset)
C4_ChunkedEqualsWhole ==
  ( /\ scan_pc = "end"
    /\ TheFile.noise = <<>>
    /\ \A r \in DOMAIN rules : LongestMatchFits(CompileRegex(rules[r].pat)) )
  => FindingSet(chunk_st.findings) = FindingSet(whole_res[1].findings)

\* C5: under rules whose anchors are necessary literals, the prefilter scan
\* of a buffer returns the values the regex-only scan of the buffer returns
C5_PrefilterEqualsNaive ==
  ( /\ whole_res # <<>> /\ naive_res # <<>>
    /\ ~SampleBinary(TheFile, TheFile.size)
    /\ \A r \in DOMAIN rules : AnchorsNecessary(rules[r]) )
  => ValueSet(whole_res[1].findings) = ValueSet(naive_res[1].findings)

\* C7: the file holds at start_offset the bytes of the value, for every
\* finding of the whole-buffer path and of every chunk of the chunked path
C7_OffsetSound ==
  /\ whole_res # <<>> =>
       \A i \in DOMAIN whole_res[1].findings :
          FileHas(TheFile, whole_res[1].findings[i].start_offset, whole_res[1].findings[i].value)
  /\ \A i \in DOMAIN chunk_st.findings :
       FileHas(TheFile, chunk_st.findings[i].start_offset, chunk_st.findings[i].value)

\* C7 witness: a chunk assembled behind a carry returned a finding that
\* starts beyond the first chunk
C7_Witness ==
  /\ chunk_st.iter >= 2
  /\ \E i \in DOMAIN chunk_st.findings :
       /\ chunk_st.findings[i].start_offset > read_log[1]
       /\ FileHas(TheFile, chunk_st.findings[i].start_offset, chunk_st.findings[i].value)

\* C8: a file whose first 8 KiB hold a NUL or are less than a quarter
\* printable yields no finding on any engine and any read path
C8_BinarySkipped ==
  SampleBinary(TheFile, Min(TheFile.size, SAMPLE_LEN))
  => /\ whole_res # <<>> => whole_res[1].findings = <<>>
     /\ utf8_res # <<>> => utf8_res[1].findings = <<>>
     /\ chunk_st.findings = <<>>

\* C8 amended: under the bytes engine a file yields no finding when the
\* sample the sniffer takes holds a NUL or is less than a quarter printable;
\* the sample is the whole content on the whole-file path and the first
\* min(8192, length of the first read) bytes on the chunked path
C8_SampleDecides ==
  /\ (whole_res # <<>> /\ SampleBinary(TheFile, TheFile.size))
       => whole_res[1].findings = <<>>
  /\ (read_log # <<>> /\ SampleBinary(TheFile, Min(read_log[1], SAMPLE_LEN)))
       => chunk_st.findings = <<>>

\* C8 witness: a file with a NUL at its head and a token behind it, which
\* the regex-only scan finds, was given up by both read paths
C8_Witness ==
  /\ scan_pc = "end"
  /\ chunk_st.ret = "binary"
  /\ SampleBinary(TheFile, TheFile.size)
  /\ naive_res[1].findings # <<>>
  /\ whole_res[1].findings = <<>>

\* C10: a match of at most 512 bytes that straddles a chunk boundary is
\* emitted once, at its own file offset; a match inside the overlap region
\* is emitted once
C10_StraddlingOnceAtOffset ==
  (scan_pc = "end" /\ chunk_st.ret = "eof")
  => \A m \in FileMatches : \A P \in Boundaries :
        (m.m0e - m.m0s <= CHUNK_OVERLAP /\ (Straddles(m, P) \/ InOverlap(m, P)))
        => /\ Cardinality(FindingsOf(m)) = 1
           /\ Straddles(m, P) =>
                \A i \in FindingsOf(m) : chunk_st.findings[i].start_offset = m.start

\* C10 amended: such a match has its value emitted once; the finding's
\* start_offset is the file offset of a match with that value, and is the
\* offset of the straddling match when no other match has its value
C10_StraddlingOnce ==
  (scan_pc = "end" /\ chunk_st.ret = "eof")
  => \A m \in FileMatches : \A P \in Boundaries :
        (m.m0e - m.m0s <= CHUNK_OVERLAP /\ (Straddles(m, P) \/ InOverlap(m, P)))
        => /\ Cardinality(FindingsOf(m)) = 1
           /\ \A i \in FindingsOf(m) :
                /\ \E m2 \in FileMatches :
                     /\ m2.raw = m.raw
                     /\ m2.start = chunk_st.findings[i].start_offset
                /\ (Straddles(m, P) /\ \A m2 \in FileMatches : m2.raw = m.raw => m2 = m)
                     => chunk_st.findings[i].start_offset = m.start

\* C10 witness: the scan ended with one match cut by the end of the first
\* full chunk and emitted at its offset, and another inside the overlap
C10_Witness ==
  /\ scan_pc = "end" /\ chunk_st.ret = "eof"
  /\ \E m \in FileMatches :
       /\ Straddles(m, CHUNK_SIZE) /\ CHUNK_SIZE \in Boundaries
       /\ \E i \in FindingsOf(m) : chunk_st.findings[i].start_offset = m.start
  /\ \E m \in FileMatches :
       /\ InOverlap(m, CHUNK_SIZE)
       /\ m.m0s >= CHUNK_SIZE - CHUNK_OVERLAP
       /\ Cardinality(FindingsOf(m)) = 1

(***************************************************************************)
(* One buffer through the prefilter pipeline, stage by stage:              *)
(* load_rule_specs, build_prefilter_plan, then the three steps of          *)
(* scan_buffer_with_prefilter over the whole file as one buffer.           *)
(***************************************************************************)

\* largest number of [[rules]] entries of a rule file
MaxEntries == 2

Entry(id, pattern, regex) == [id |-> id, pattern |-> pattern, regex |-> regex]

\* the [[rules]] entries a rule file is written from
EntryCatalogue ==
  { Entry("ghu", <<PatGhu>>, <<>>),
    Entry("slack", <<PatSlack>>, <<>>),
    Entry("slackold", <<>>, <<PatSlackOld>>),
    Entry("stripe", <<PatStripe>>, <<>>),
    Entry("shpat", <<PatShpat>>, <<>>),
    Entry("pat", <<>>, <<PatPat>>),
    Entry("openai", <<PatOpenai>>, <<>>),
    Entry("ghp", <<PatGhp>>, <<PatOpenai>>),
    Entry("todo", <<>>, <<>>),
    Entry("privkey", <<PatPrivKey>>, <<>>),
    Entry("pembegin", <<PatPemBegin>>, <<>>),
    Entry("pemend", <<PatPemEnd>>, <<>>),
    Entry("gcp", <<PatAIza>>, <<>>),
    Entry("ctx", <<>>, <<PatCtx>>),
    Entry("apikey", <<PatOpt>>, <<>>),
    Entry("tok", <<>>, <<PatEsc>>) }

\* rule files: up to MaxEntries different entries in any order
EntryFiles ==
  UNION { {e \in [1..n -> EntryCatalogue] : \A i, j \in 1..n : i # j => e[i] # e[j]}
          : n \in 1..MaxEntries }

(* Buffers of the pipeline:
   u, c       as in the catalogue;
   both       a ghp_ token and, inside its window, an sk- token;
   slack      xoxe- and xoxs- tokens;   stripe  an rk_ token;
   shop       shpat_ + 32 characters: pat_ occurs inside the longer anchor;
   pem        PRIVATE KEY-----, -----BEGIN and -----END far from each other;
   block      a PEM block: -----BEGIN at 5000 and -----END 1700 bytes later;
   opt        api_key= + 16 characters, and tok_ + 10 characters after a space *)
PlanFiles ==
  { f \in Catalogue : f.name \in {"u", "c"} }
  \cup
  { File("both", 200, << Seg(0, LitGhp, "A", 36), Seg(50, LitSk, "B", 24) >>, <<>>),
    File("slack", 200, << Seg(10, <<"x","o","x","e","-">>, "A", 12), Seg(100, <<"x","o","x","s","-">>, "B", 12) >>, <<>>),
    File("stripe", 100, << Seg(10, <<"r","k","_">>, "A", 24) >>, <<>>),
    File("shop", 100, << Seg(0, <<"s","h","p","a","t","_">>, "A", 32) >>, <<>>),
    File("pem", 41000, << Seg(3000, <<"P","R","I","V","A","T","E"," ","K","E","Y","-","-","-","-","-">>, "A", 64),
                          Seg(20000, <<"-","-","-","-","-","B","E","G","I","N"," ">>, "A", 4),
                          Seg(39000, <<"-","-","-","-","-","E","N","D"," ">>, "B", 4) >>, <<>>),
    File("block", 8000, << Seg(5000, <<"-","-","-","-","-","B","E","G","I","N"," ">>, "A", 4),
                           Seg(6700, <<"-","-","-","-","-","E","N","D"," ">>, "B", 4) >>, <<>>),
    File("opt", 200, << Seg(10, <<"a","p","i","_","k","e","y","=">>, "A", 16),
                        Seg(100, <<"t","o","k","_">>, "B", 10) >>, <<>>) }

\* the whole file as one buffer
TheBuf == [f |-> TheFile, lo |-> 0, hi |-> TheFile.size]

InitPlan ==
  /\ rules = <<>>
  /\ files \in {<<f>> : f \in PlanFiles}
  /\ engine = "Bytes"
  /\ threads = 2
  /\ max_file_size = <<>>
  /\ pc = "plan"
  /\ RunsNotStarted
  /\ CacheIdle
  /\ LoopIdle
  /\ LoadIdle
  /\ scan_pc = "idle"
  /\ scan_orders = <<>>
  /\ whole_res = <<>>
  /\ naive_res = <<>>
  /\ utf8_res = <<>>
  /\ chunk_st = ChunkStart
  /\ read_log = <<>>
  /\ pl_pc = "load"
  /\ pl_entries \in EntryFiles
  /\ pl_plan = build_prefilter_plan(<<>>)
  /\ pl_hits = <<>>
  /\ pl_windows = <<>>
  /\ pl_orders = <<>>
  /\ pl_findings = <<>>
  /\ sort_once = <<>>
  /\ sort_twice = <<>>

\* load_rule_specs(&opts.rules_path)
LoadRules ==
  /\ pl_pc = "load"
  /\ rules' = load_rule_specs(pl_entries)
  /\ pl_pc' = "plan"
  /\ UNCHANGED <<ld, mloop, cache_vars, files, engine, threads, max_file_size, pc, seq_vars, par_vars, scan_vars, pl_entries,
                 pl_plan, pl_hits, pl_windows, pl_orders, pl_findings, sort_once, sort_twice>>

\* build_prefilter_plan(&specs)
BuildPlan ==
  /\ pl_pc = "plan"
  /\ pl_plan' = build_prefilter_plan(rules)
  /\ pl_pc' = "hits"
  /\ UNCHANGED <<ld, mloop, cache_vars, input_vars, pc, seq_vars, par_vars, scan_vars, pl_entries,
                 pl_hits, pl_windows, pl_orders, pl_findings, sort_once, sort_twice>>

\* step 1 of scan_buffer_with_prefilter: plan.ac.find_iter(buf)
FindHits ==
  /\ pl_pc = "hits"
  /\ pl_hits' = AcHits(pl_plan.anchors, TheBuf, 1)
  /\ pl_pc' = IF pl_hits' = <<>> THEN "end" ELSE "windows"
  /\ UNCHANGED <<ld, mloop, cache_vars, input_vars, pc, seq_vars, par_vars, scan_vars, pl_entries,
                 pl_plan, pl_windows, pl_orders, pl_findings, sort_once, sort_twice>>

\* step 2: the windows of the hits
MakeWindows ==
  /\ pl_pc = "windows"
  /\ pl_windows' = BuildWindows(pl_plan, pl_hits, 1, BufLen(TheBuf), <<>>)
  /\ pl_pc' = "rules"
  /\ UNCHANGED <<ld, mloop, cache_vars, input_vars, pc, seq_vars, par_vars, scan_vars, pl_entries,
                 pl_plan, pl_hits, pl_orders, pl_findings, sort_once, sort_twice>>

(* Window i reads orders[i] (cyclically): with n windows the orders behind
   the n-th are not read, and are taken ascending. *)
UnreadAscending(orders, n) ==
  \A i \in DOMAIN orders : i > n => orders[i] = [r \in DOMAIN orders[i] |-> r]

\* step 3: the candidate rules of every window are run over it
RunRules ==
  /\ pl_pc = "rules"
  /\ \E o \in {q \in OrderChoices(Len(rules)) : UnreadAscending(q, Len(pl_windows))} :
       /\ pl_orders' = o
       /\ pl_findings' = ScanWindows(pl_plan, pl_windows, 1, o,
                                     [findings |-> <<>>, seen |-> {}],
                                     TheBuf, 0, TheFile.name).findings
  /\ pl_pc' = "end"
  /\ UNCHANGED <<ld, mloop, cache_vars, input_vars, pc, seq_vars, par_vars, scan_vars, pl_entries,
                 pl_plan, pl_hits, pl_windows, sort_once, sort_twice>>

NextPlan ==
  \/ LoadRules
  \/ BuildPlan
  \/ FindHits
  \/ MakeWindows
  \/ RunRules

SpecPlan == InitPlan /\ [][NextPlan]_vars

(***************************************************************************)
(* Properties of the prefilter pipeline                                    *)
(***************************************************************************)

\* the fixed alternation idioms and the literals each one stands for
Idioms ==
  { [idiom |-> <<"x","o","x","[","p","e","]","-">>,
     lits  |-> {<<"x","o","x","p","-">>, <<"x","o","x","e","-">>}],
    [idiom |-> <<"x","o","x","[","o","s","]","-">>,
     lits  |-> {<<"x","o","x","o","-">>, <<"x","o","x","s","-">>}],
    [idiom |-> <<"x","o","x","(","?",":","o","|","s",")","-">>,
     lits  |-> {<<"x","o","x","o","-">>, <<"x","o","x","s","-">>}],
    [idiom |-> <<"(","?",":","g","h","u","|","g","h","s",")","_">>,
     lits  |-> {<<"g","h","u","_">>, <<"g","h","s","_">>}],
    [idiom |-> <<"(","?",":","s","k","|","r","k",")","_">>,
     lits  |-> {<<"s","k","_">>, <<"r","k","_">>}] }

\* the expanded literals of the idioms each pattern contains
ExpandedOf == [pat \in Patterns |-> UNION {i.lits : i \in {j \in Idioms : Contains(pat, j.idiom)}}]

ExpandedLiterals(pat) == ExpandedOf[pat]

\* the plan maps the literal to an anchor of rule r
AnchorOfRule(plan, lit, r) ==
  \E aid \in DOMAIN plan.anchors :
     /\ plan.anchors[aid] = lit
     /\ r \in Range(plan.anchor_to_rules[aid])

\* the matches of rule r's regex over the whole file
RuleMatches(r) ==
  Range(RegexMatches(CompileRegex(rules[r].pat), TheFile.segs, 1, 0, TheFile.size))

\* the plan is built
PlanBuilt == pl_pc \in {"hits", "windows", "rules", "end"}

(* C11: for a rule whose pattern contains one of the fixed alternation idioms,
   every expanded literal of the idiom is an anchor of the rule in the plan,
   and once the buffer is scanned every token of the file that the rule's
   regex matches is among the findings. *)
C11_IdiomAnchorsEmit ==
  \A r \in DOMAIN rules :
     ExpandedLiterals(rules[r].pat) # {} =>
       /\ PlanBuilt =>
            \A lit \in ExpandedLiterals(rules[r].pat) : AnchorOfRule(pl_plan, lit, r)
       /\ pl_pc = "end" =>
            \A m \in RuleMatches(r) :
               \E x \in Range(pl_findings) : x.value = from_utf8_lossy(m.raw)

\* S6: the rule (?:ghu|ghs)_[A-Za-z0-9]{36,} has emitted the ghu_ token of file u
C11_Witness ==
  /\ pl_pc = "end"
  /\ TheFile.name = "u"
  /\ \E r \in DOMAIN rules : rules[r].pat = PatGhu /\ RuleMatches(r) # {}
  /\ \E x \in Range(pl_findings) : x.value.lit = <<"g","h","u","_">> /\ x.value.n = 36

\* out is "[", the items with exactly one "," between neighbours, "]"
JsonArray(out) ==
  /\ Len(out) >= 2
  /\ out[1] = Punct("[")
  /\ out[Len(out)] = Punct("]")
  /\ Len(out) > 2 => Len(out) % 2 = 1
  /\ \A k \in 2..(Len(out) - 1) :
        IF k % 2 = 0 THEN out[k].t = "item" ELSE out[k] = Punct(",")

(* C12: when the sequential run has returned, and when the parallel run has
   returned, the output is "[", the items separated by exactly one "," each,
   and "]": no comma before the first item or after the last, none doubled
   where a file ends or where a file has no findings; without findings the
   output is exactly "[]". *)
C12_JsonArray ==
  /\ pc \in {"par_start", "par", "done"} =>
       /\ JsonArray(out_seq)
       /\ Items(out_seq) = <<>> => out_seq = <<Punct("["), Punct("]")>>
  /\ pc = "done" /\ engine = "Bytes" =>
       /\ JsonArray(out_par)
       /\ Items(out_par) = <<>> => out_par = <<Punct("["), Punct("]")>>

\* both runs returned; the first file had no findings, the second one several
C12_Witness ==
  /\ pc = "done"
  /\ engine = "Bytes"
  /\ Len(files) = 2
  /\ \A k \in DOMAIN out_par : out_par[k].t = "item" => out_par[k].file_hash = files[2].name
  /\ \A k \in DOMAIN out_seq : out_seq[k].t = "item" => out_seq[k].file_hash = files[2].name
  /\ Len(Items(out_seq)) >= 2
  /\ Len(Items(out_par)) >= 2

\* both runs returned without any finding
C12_WitnessEmpty ==
  /\ pc = "done"
  /\ files # <<>>
  /\ out_seq = <<Punct("["), Punct("]")>>
  /\ out_par = <<Punct("["), Punct("]")>>

(***************************************************************************)
(* Properties of runs over failing and oversized files                     *)
(***************************************************************************)

\* the sequential run has just returned
SeqReturned == pc = "par_start" \/ (pc = "done" /\ engine = "Utf8")

\* the content does not decode as UTF-8
Undecodable(f) == \E k \in DOMAIN f.noise : f.noise[k].kind = "bin" /\ f.noise[k].n > 0

\* the scan of the file fails under the run's engine
ScanFails(f) ==
  IF engine = "Bytes" THEN ~f.readable \/ ~f.meta_ok
  ELSE ~f.readable \/ Undecodable(f)

\* the file's metadata is read and its length exceeds max_file_size
Oversized(f) == max_file_size # <<>> /\ f.meta_ok /\ f.size > max_file_size[1]

\* the file's name is not UTF-8: both paths pass it over before any read
NameSkipped(f) == ~f.name_utf8

\* the items of one file in an output, in order
ItemsOfFile(out, name) == SelectSeq(out, LAMBDA x : x.t = "item" /\ x.file_hash = name)

\* what the run's engine returns for the file alone
ScanAlone(f, o) ==
  IF engine = "Bytes"
  THEN (IF f.size <= SMALL_FILE_MAX THEN scan_file_bytes_prefilter(f, Plan, o)
        ELSE scan_file_bytes_chunked_prefilter(f, Plan, o, <<>>))
  ELSE scan_file_utf8(f, from_specs(rules))

\* the item sequences a run writes for the file when nothing else is in the directory
AloneItems(f) ==
  IF Oversized(f) \/ NameSkipped(f) THEN {<<>>}
  ELSE { LET sorted == sort_findings_stable(ScanAlone(f, o).findings)
         IN [j \in DOMAIN sorted |-> JsonItem(sorted[j])]
         : o \in OrderChoices(Len(rules)) }

\* a returned run dropped the failing files and nothing else
FailingDropped(out, stats) ==
  /\ \A i \in DOMAIN files :
        IF ScanFails(files[i])
        THEN ItemsOfFile(out, files[i].name) = <<>>
        ELSE ItemsOfFile(out, files[i].name) \in AloneItems(files[i])
  /\ stats.files_scanned =
       Cardinality({i \in DOMAIN files : /\ ~ScanFails(files[i])
                                         /\ ~Oversized(files[i])
                                         /\ ~NameSkipped(files[i])})

(* C13: when a run has returned, a file whose scan failed (it cannot be
   opened, its metadata cannot be read under the bytes engine, it does not
   decode under the utf8 engine) has no item in the output and is not counted
   in files_scanned, and every other file has the items it has when it is
   scanned alone; sequential and parallel path. *)
C13_FailingFileDropped ==
  /\ SeqReturned => FailingDropped(out_seq, stats_seq)
  /\ pc = "done" /\ engine = "Bytes" => FailingDropped(out_par, stats_par)

\* both runs returned from a directory with a failing file and a file with findings
C13_Witness ==
  /\ pc = "done"
  /\ engine = "Bytes"
  /\ \E i \in DOMAIN files : ScanFails(files[i])
  /\ \E i \in DOMAIN files :
        /\ ItemsOfFile(out_seq, files[i].name) # <<>>
        /\ ItemsOfFile(out_par, files[i].name) # <<>>
  /\ stats_seq.files_scanned = 1
  /\ stats_par.files_scanned = 1

\* the utf8 run returned from a directory with an undecodable file and a file with findings
C13_WitnessUtf8 ==
  /\ pc = "done"
  /\ engine = "Utf8"
  /\ \E i \in DOMAIN files : files[i].readable /\ Undecodable(files[i])
  /\ \E i \in DOMAIN files : ItemsOfFile(out_seq, files[i].name) # <<>>

\* the values of one file's items in an output
ValuesOfFile(out, name) == {x.value : x \in Range(ItemsOfFile(out, name))}

\* the value sets a scan of the file alone returns, one per hash order
AloneValues(f) ==
  { {x.value : x \in Range(ScanAlone(f, o).findings)} : o \in OrderChoices(Len(rules)) }

\* every file has the values of its own scan, and equal values stand in file-name order
DedupPerFile(out) ==
  /\ \A i \in DOMAIN files : ValuesOfFile(out, files[i].name) \in AloneValues(files[i])
  /\ \A k, l \in DOMAIN Items(out) :
        (k < l /\ Items(out)[k].value = Items(out)[l].value)
        => FileIdx(Items(out)[k]) < FileIdx(Items(out)[l])

(* C14: the dedup set is scoped to one file: when a run has returned, every
   file has an item for each value its own scan finds, whatever other files
   of the directory hold the same value, so a value present in k files has k
   items, one per file, in file-name order. *)
C14_DedupPerFile ==
  /\ SeqReturned => DedupPerFile(out_seq)
  /\ pc = "done" /\ engine = "Bytes" => DedupPerFile(out_par)

\* both runs returned with the same value written for file a and then for file b
C14_Witness ==
  /\ pc = "done"
  /\ engine = "Bytes"
  /\ Len(files) = 2 /\ files[1].name = "a" /\ files[2].name = "b"
  /\ \E v \in ValuesOfFile(out_par, "a") :
        /\ v \in ValuesOfFile(out_par, "b")
        /\ v \in ValuesOfFile(out_seq, "a")
        /\ v \in ValuesOfFile(out_seq, "b")
        /\ Len(SelectSeq(out_par, LAMBDA x : x.t = "item" /\ x.value = v)) = 2

\* a returned run applied the gate: oversized files and files without metadata are skipped
SizeGate(out, stats) ==
  max_file_size # <<>> =>
    /\ \A i \in DOMAIN files :
          (~files[i].meta_ok \/ files[i].size > max_file_size[1])
          => ItemsOfFile(out, files[i].name) = <<>>
    /\ stats.files_scanned =
         Cardinality({i \in DOMAIN files : /\ files[i].meta_ok
                                           /\ files[i].size <= max_file_size[1]
                                           /\ ~ScanFails(files[i])
                                           /\ ~NameSkipped(files[i])})

(* C15: with max_file_size = M, when a run has returned, a file is skipped
   (no items, not counted as scanned) if and only if its size exceeds M, a
   file of size exactly M being scanned, and a file whose metadata cannot be
   read is skipped without findings; bytes and utf8 engine, sequential and
   parallel path. *)
C15_SizeGate ==
  /\ SeqReturned => SizeGate(out_seq, stats_seq)
  /\ pc = "done" /\ engine = "Bytes" => SizeGate(out_par, stats_par)

(* The gate as the bytes engine applies it: the claim of C15 holds for every
   run of the bytes engine, and for the utf8 engine on files whose metadata
   can be read. *)
C15_SizeGateWithMetadata ==
  (engine = "Bytes" \/ \A i \in DOMAIN files : files[i].meta_ok) => C15_SizeGate

\* a utf8 run with the gate set returned items of a file whose metadata cannot be read
C15_Utf8ScansWithoutMetadata ==
  /\ pc = "done"
  /\ engine = "Utf8"
  /\ max_file_size # <<>>
  /\ \E i \in DOMAIN files :
        /\ ~files[i].meta_ok
        /\ files[i].size > max_file_size[1]
        /\ ItemsOfFile(out_seq, files[i].name) # <<>>

\* the entry has a pattern or a regex field
ValidEntry(e) == e.pattern # <<>> \/ e.regex # <<>>

\* the valid entries of the rule file, in file order
ValidEntries == SelectSeq(pl_entries, ValidEntry)

\* the field of a valid entry that is used: pattern when present
UsedField(e) == IF e.pattern # <<>> THEN e.pattern[1] ELSE e.regex[1]

(* C16: once the rule file is loaded, the rules are its entries with a
   pattern or a regex field, in file order, entries with neither being
   dropped; the k-th valid entry is rule k of the plan; an entry with both
   fields is loaded with its pattern field. *)
C16_LoaderKeepsValidInOrder ==
  /\ pl_pc \in {"plan", "hits", "windows", "rules", "end"} =>
       /\ Len(rules) = Len(ValidEntries)
       /\ \A k \in DOMAIN rules :
             /\ rules[k].id = ValidEntries[k].id
             /\ rules[k].pat = UsedField(ValidEntries[k])
  /\ PlanBuilt =>
       /\ Len(pl_plan.rule_patterns) = Len(ValidEntries)
       /\ \A k \in DOMAIN ValidEntries :
             pl_plan.rule_patterns[k] = UsedField(ValidEntries[k])

\* a rule file whose first entry has neither field and whose second has both was loaded and run
C16_Witness ==
  /\ pl_pc = "end"
  /\ Len(pl_entries) = 2
  /\ ~ValidEntry(pl_entries[1])
  /\ pl_entries[2].pattern # <<>> /\ pl_entries[2].regex # <<>>
  /\ Len(rules) = 1
  /\ pl_findings # <<>>

(***************************************************************************)
(* One file's findings through the two sorts of the parallel path (worker, *)
(* then writer) and the writer's loop over them.                           *)
(***************************************************************************)

\* largest number of findings of the file
MaxFindings == 3

\* findings that tie on the offset, on offset and length, and on all three keys
FindingCatalogue ==
  { [file_hash |-> "f", value |-> [lit |-> LitGhp, body |-> b, n |-> n], start_offset |-> off]
    : b \in {"A", "B"}, n \in {36, 40}, off \in {0, 7} }

InitSort ==
  /\ rules = <<>>
  /\ files = <<>>
  /\ engine = "Bytes"
  /\ threads = 2
  /\ max_file_size = <<>>
  /\ pc = "sort"
  /\ RunsNotStarted
  /\ CacheIdle
  /\ LoopIdle
  /\ LoadIdle
  /\ scan_pc = "idle"
  /\ scan_orders = <<>>
  /\ whole_res = <<>>
  /\ naive_res = <<>>
  /\ utf8_res = <<>>
  /\ chunk_st = ChunkStart
  /\ read_log = <<>>
  /\ pl_pc = "worker"
  /\ pl_entries = <<>>
  /\ pl_plan = build_prefilter_plan(<<>>)
  /\ pl_hits = <<>>
  /\ pl_windows = <<>>
  /\ pl_orders = <<>>
  /\ pl_findings \in UNION {[1..n -> FindingCatalogue] : n \in 0..MaxFindings}
  /\ sort_once = <<>>
  /\ sort_twice = <<>>

\* the worker: sort_findings_stable(&mut findings) before tx.send
WorkerSort ==
  /\ pl_pc = "worker"
  /\ sort_once' = sort_findings_stable(pl_findings)
  /\ pl_pc' = "writer"
  /\ UNCHANGED <<ld, mloop, cache_vars, input_vars, pc, seq_vars, par_vars, scan_vars, pl_entries, pl_plan,
                 pl_hits, pl_windows, pl_orders, pl_findings, sort_twice>>

\* the writer: sort_findings_stable(&mut findings) on the received list
WriterSort ==
  /\ pl_pc = "writer"
  /\ sort_twice' = sort_findings_stable(sort_once)
  /\ pl_pc' = "write"
  /\ UNCHANGED <<ld, mloop, cache_vars, input_vars, pc, seq_vars, par_vars, scan_vars, pl_entries, pl_plan,
                 pl_hits, pl_windows, pl_orders, pl_findings, sort_once>>

\* the writer: the loop that writes the items of the file
WriterWrite ==
  /\ pl_pc = "write"
  /\ LET w == WriteFindings(sort_twice, 1,
                [out |-> out_par, first |-> first_par,
                 outputs_written |-> stats_par.outputs_written])
     IN /\ out_par' = w.out
        /\ first_par' = w.first
        /\ stats_par' = [files_scanned |-> stats_par.files_scanned + 1,
                         outputs_written |-> w.outputs_written]
  /\ pl_pc' = "written"
  /\ UNCHANGED <<ld, mloop, cache_vars, input_vars, pc, seq_vars, scan_vars, pl_entries, pl_plan, pl_hits,
                 pl_windows, pl_orders, pl_findings, sort_once, sort_twice,
                 todo, worker, chan, next_idx, buffer, sent, emitted>>

NextSort ==
  \/ WorkerSort
  \/ WriterSort
  \/ WriterWrite

SpecSort == InitSort /\ [][NextSort]_vars

\* a is not behind b: offset ascending, then length descending, then value ascending
InOrder(a, b) ==
  \/ a.start_offset < b.start_offset
  \/ /\ a.start_offset = b.start_offset
     /\ ValueLen(a.value) > ValueLen(b.value)
  \/ /\ a.start_offset = b.start_offset
     /\ ValueLen(a.value) = ValueLen(b.value)
     /\ ~BytesLess(ValueBytes(b.value), ValueBytes(a.value))

\* how often x occurs in the sequence
Count(seq, x) == Cardinality({k \in DOMAIN seq : seq[k] = x})

(* C17: the items of a file are written in the order start_offset ascending,
   then value length descending, then value ascending, they are the file's
   findings, and the second sort (the writer's, after the worker's) returns
   the sequence the first one returned. *)
C17_SortedAndIdempotent ==
  /\ pl_pc \in {"writer", "write", "written"} =>
       /\ \A k, l \in DOMAIN sort_once : k < l => InOrder(sort_once[k], sort_once[l])
       /\ \A x \in FindingCatalogue : Count(sort_once, x) = Count(pl_findings, x)
  /\ pl_pc \in {"write", "written"} => sort_twice = sort_once
  /\ pl_pc = "written" =>
       Items(out_par) = [k \in DOMAIN sort_once |-> JsonItem(sort_once[k])]

\* three findings at one offset, two of one length, given in the reverse of their order, are written
C17_Witness ==
  /\ pl_pc = "written"
  /\ Len(pl_findings) = 3
  /\ \A k \in 1..3 : pl_findings[k].start_offset = 7
  /\ ValueLen(pl_findings[1].value) = 40 /\ pl_findings[1].value.body = "B"
  /\ ValueLen(pl_findings[2].value) = 40 /\ pl_findings[2].value.body = "A"
  /\ ValueLen(pl_findings[3].value) = 44
  /\ sort_once = <<pl_findings[3], pl_findings[2], pl_findings[1]>>

\* rule r has no anchor after the filter pass
Dormant(r) == AnchorsOfPattern[rules[r].pat] = <<>>

\* the indices of the rules that have anchors
LiveIdx == {r \in DOMAIN rules : ~Dormant(r)}

\* the position of the live rule r among the live rules
Rank(r) == Cardinality({q \in LiveIdx : q <= r})

\* the rule list without its dormant rules
LiveRules == SelectSeq(rules, LAMBDA x : AnchorsOfPattern[x.pat] # <<>>)

\* the hash orders of the run, as they read on the rule list without its dormant rules
LiveOrders ==
  [i \in DOMAIN pl_orders |->
     LET kept == SelectSeq(pl_orders[i], LAMBDA r : r \in LiveIdx)
     IN [k \in DOMAIN kept |-> Rank(kept[k])]]

\* what the same buffer yields when the dormant rules are not in the rule list
FindingsWithoutDormant ==
  IF pl_orders = <<>> THEN <<>>
  ELSE scan_buffer_with_prefilter(TheBuf, 0, TheFile.name,
                                  build_prefilter_plan(LiveRules), LiveOrders)

\* the finding is a match of the regex of rule r in one of the windows
FoundBy(x, r) ==
  \E i \in DOMAIN pl_windows :
     \E m \in Range(RegexMatches(CompileRegex(rules[r].pat), TheFile.segs, 1,
                                 pl_windows[i].s, pl_windows[i].e)) :
        /\ x.value = from_utf8_lossy(m.raw)
        /\ x.start_offset = m.start

(* C18: under the bytes engine a rule without anchors is dormant: every
   finding of the buffer is a match of a rule that has anchors, the plan
   keeps every rule, dormant or not, at its index of the rule list, and the
   findings are those the buffer yields when the dormant rules are left out
   of the rule list. *)
C18_DormantRule ==
  /\ PlanBuilt =>
       /\ \A r \in DOMAIN rules : pl_plan.rule_patterns[r] = rules[r].pat
       /\ \A aid \in DOMAIN pl_plan.anchor_to_rules :
             \A r \in Range(pl_plan.anchor_to_rules[aid]) :
                /\ r \in LiveIdx
                /\ pl_plan.anchors[aid] \in Range(AnchorsOfPattern[rules[r].pat])
  /\ (pl_pc = "end" /\ LiveIdx # DOMAIN rules) =>
       /\ \A x \in Range(pl_findings) : \E r \in LiveIdx : FoundBy(x, r)
       /\ pl_findings = FindingsWithoutDormant

\* a dormant rule stood before a live one; the window of the live rule's hit held a match of the dormant rule
C18_Witness ==
  /\ pl_pc = "end"
  /\ Len(rules) = 2 /\ Dormant(1) /\ ~Dormant(2)
  /\ pl_findings # <<>>
  /\ \E i \in DOMAIN pl_windows :
        RegexMatches(CompileRegex(rules[1].pat), TheFile.segs, 1,
                     pl_windows[i].s, pl_windows[i].e) # <<>>

LitEnd == <<"-","-","-","-","-","E","N","D"," ">>

LitBegin == <<"-","-","-","-","-","B","E","G","I","N"," ">>

LitPrivateKey == <<"P","R","I","V","A","T","E"," ","K","E","Y">>

\* the anchor is one of those with a wider before-padding
WideBefore(anchor) == starts_with(anchor, LitEnd) \/ Contains(anchor, LitPrivateKey)

\* the anchor is one of those with a wider after-padding
WideAfter(anchor) == starts_with(anchor, LitBegin) \/ Contains(anchor, LitPrivateKey)

\* the number of hits in the windows 1..i
RECURSIVE HitsUpTo(_)
HitsUpTo(i) == IF i = 0 THEN 0 ELSE HitsUpTo(i - 1) + Len(pl_windows[i].aids)

\* the window the k-th hit went into
WindowOfHit(k) ==
  pl_windows[CHOOSE i \in DOMAIN pl_windows : HitsUpTo(i - 1) < k /\ k <= HitsUpTo(i)]

(* C19: when the windows are built, the window of a hit starts at least 2048
   bytes before the hit (or at 0) if the hit's anchor begins with -----END or
   contains PRIVATE KEY, and ends at least 16384 bytes after it (or at the
   end of the buffer) if the anchor begins with -----BEGIN or contains
   PRIVATE KEY; for every other anchor the paddings are 128 and 1024, exactly
   so when the hit has its window to itself. *)
C19_PemPaddings ==
  pl_pc \in {"rules", "end"} =>
    \A k \in DOMAIN pl_hits :
       LET pos    == pl_hits[k][1]
           anchor == pl_plan.anchors[pl_hits[k][2]]
           w      == WindowOfHit(k)
       IN /\ WideBefore(anchor) => w.s <= Max(0, pos - 2048)
          /\ WideAfter(anchor) => w.e >= Min(pos + 16384, BufLen(TheBuf))
          /\ ~WideBefore(anchor) =>
               /\ w.s <= Max(0, pos - 128)
               /\ Len(w.aids) = 1 => w.s = Max(0, pos - 128)
          /\ ~WideAfter(anchor) =>
               /\ w.e >= Min(pos + 1024, BufLen(TheBuf))
               /\ Len(w.aids) = 1 => w.e = Min(pos + 1024, BufLen(TheBuf))

(* the paddings of every anchor without PRIVATE KEY: the after-padding of
   every hit, the before-padding of a hit that opens its window *)
C19_PaddingsWithoutPrivateKey ==
  pl_pc \in {"rules", "end"} =>
    \A k \in DOMAIN pl_hits :
       LET pos    == pl_hits[k][1]
           anchor == pl_plan.anchors[pl_hits[k][2]]
           w      == WindowOfHit(k)
       IN ~Contains(anchor, LitPrivateKey) =>
            /\ w.e >= Min(pos + (IF WideAfter(anchor) THEN 16384 ELSE 1024), BufLen(TheBuf))
            /\ (\E i \in DOMAIN pl_windows : k = HitsUpTo(i - 1) + 1) =>
                 w.s = Max(0, pos - (IF WideBefore(anchor) THEN 2048 ELSE 128))

\* the windows are built for a hit of the anchor PRIVATE KEY at 3000; its window starts at 2872
C19_PrivateKeyNarrow ==
  /\ pl_pc = "rules"
  /\ \E k \in DOMAIN pl_hits :
        /\ pl_plan.anchors[pl_hits[k][2]] = LitPrivateKey
        /\ pl_hits[k][1] = 3000
        /\ WindowOfHit(k).s = 2872
        /\ WindowOfHit(k).e = 4024

\* the buffer positions at which the anchor occurs
Occurrences(anchor) ==
  UNION { {TheFile.segs[i].pos + j - 1 :
             j \in {q \in 1..Len(TheFile.segs[i].lit) : OccursAt(TheFile.segs[i].lit, anchor, q)}}
          : i \in DOMAIN TheFile.segs }

\* rule r is a candidate of a window that contains position p
Candidate(r, p) ==
  \E i \in DOMAIN pl_windows :
     /\ pl_windows[i].s <= p /\ p < pl_windows[i].e
     /\ \E k \in DOMAIN pl_windows[i].aids :
           r \in Range(pl_plan.anchor_to_rules[pl_windows[i].aids[k]])

(* C20: once the windows of the buffer are built (or the automaton has found
   no hit), every rule is a candidate of a window around every occurrence of
   each of its anchors, also where the occurrence lies inside an occurrence
   of a longer or earlier anchor of another rule. *)
C20_AnchorMakesCandidate ==
  (pl_pc = "rules" \/ (pl_pc = "end" /\ pl_hits = <<>>)) =>
    \A r \in DOMAIN rules :
       \A k \in DOMAIN AnchorsOfPattern[rules[r].pat] :
          \A p \in Occurrences(AnchorsOfPattern[rules[r].pat][k]) : Candidate(r, p)

\* the buffer is scanned; a token that a rule's regex matches at an occurrence of its anchor is not found
C20_ShadowedMatchMissed ==
  /\ pl_pc = "end"
  /\ \E r \in DOMAIN rules :
        \E m \in RuleMatches(r) :
           /\ \E k \in DOMAIN AnchorsOfPattern[rules[r].pat] :
                 m.start \in Occurrences(AnchorsOfPattern[rules[r].pat][k])
           /\ m.end - m.start <= WINDOW_AFTER
           /\ \A x \in Range(pl_findings) : x.value # from_utf8_lossy(m.raw)

\* the range the k-th hit asks for: [max(0, pos - before), min(len, pos + after))
HitRange(k) ==
  LET pos    == pl_hits[k][1]
      anchor == pl_plan.anchors[pl_hits[k][2]]
  IN [s |-> Max(0, pos - WindowBeforeOf(anchor)),
      e |-> Min(BufLen(TheBuf), pos + WindowAfterOf(anchor))]

(* C21: once the windows of the buffer are built, the range
   [max(0, pos - before), min(len, pos + after)) of every hit is contained
   in one of the windows, also for a hit that was merged into a window that
   starts behind pos - before. *)
C21_HitRangeInWindow ==
  pl_pc \in {"rules", "end"} =>
    \A k \in DOMAIN pl_hits :
       \E i \in DOMAIN pl_windows :
          /\ pl_windows[i].s <= HitRange(k).s
          /\ HitRange(k).e <= pl_windows[i].e

\* every hit lies in a window that reaches to the end of the hit's range
C21_HitRangeEndInWindow ==
  pl_pc \in {"rules", "end"} =>
    \A k \in DOMAIN pl_hits :
       /\ WindowOfHit(k).s <= pl_hits[k][1]
       /\ HitRange(k).e <= WindowOfHit(k).e

\* the windows are built; the hit of -----END at 6700 is in the window that starts at 4872
C21_MergedHitLosesBefore ==
  /\ pl_pc = "rules"
  /\ \E k \in DOMAIN pl_hits :
        /\ pl_plan.anchors[pl_hits[k][2]] = LitEnd
        /\ pl_hits[k][1] = 6700
        /\ HitRange(k).s = 4652
        /\ WindowOfHit(k).s = 4872
        /\ Len(pl_windows) = 1

\* the parallel run is under way or has returned
ParStarted == engine = "Bytes" /\ pc \in {"par", "done"}

\* the path file i takes in a worker
WorkerPath(i) ==
  IF NameSkipped(files[i]) THEN "name"
  ELSE IF Oversized(files[i]) THEN "gate"
  ELSE IF ~files[i].meta_ok THEN "metadata"
  ELSE IF ~files[i].readable THEN "scan error"
  ELSE "scanned"

\* where the message of file i is: not sent yet, in the channel, in the gap buffer, or written
Sent(i) == sent[i] = 1
InChannel(i) == Len(SelectSeq(chan, LAMBDA m : m.idx = i))
InBuffer(i) == Cardinality({m \in buffer : m.idx = i})
Written(i) == Len(SelectSeq(emitted, LAMBDA x : x = i))

(* C22: in the parallel run every file index is sent at most once, and once
   every worker is through exactly once, whatever path its file took; a sent
   message is in exactly one place (channel, gap buffer, written); the
   writer writes the indices 0, 1, 2, .. in this order, each when it is the
   next expected one; and when the channel is closed the gap buffer is empty
   and the next expected index is the number of files, so that the flush
   after the loop finds nothing. *)
C22_EachIndexOnce ==
  ParStarted =>
    /\ \A i \in DOMAIN files :
          /\ sent[i] <= 1
          /\ InChannel(i) + InBuffer(i) + Written(i) = sent[i]
          /\ sent[i] = 0 <=> (i \in todo \/ \E w \in DOMAIN worker : worker[w] # Idle /\ worker[w].idx = i)
    /\ \A j \in DOMAIN emitted : emitted[j] = j
    /\ next_idx = Len(emitted) + 1
    /\ \A m \in buffer : m.idx > next_idx
    /\ (pc = "done" \/ ChannelClosed) =>
          /\ \A i \in DOMAIN files : Sent(i) /\ Written(i) = 1
          /\ buffer = {}
          /\ next_idx = Len(files) + 1

\* the run returned: the second file's message was written after a first file that was not scanned
C22_Witness ==
  /\ ParStarted /\ pc = "done"
  /\ Len(files) = 2
  /\ emitted = <<1, 2>>
  /\ WorkerPath(1) # "scanned"
  /\ WorkerPath(2) = "scanned"
  /\ stats_par.files_scanned = 1

\* the gap buffer holds the message of the second file, whose name is not UTF-8, while the first file is not sent yet
C22_WitnessGap ==
  /\ ParStarted /\ pc = "par"
  /\ Len(files) = 2
  /\ WorkerPath(2) = "name"
  /\ sent = <<0, 1>>
  /\ InBuffer(2) = 1
  /\ emitted = <<>>

\* a run returned in which one file was held back by the size gate and the scan of the other failed
C22_WitnessPaths ==
  /\ ParStarted /\ pc = "done"
  /\ {WorkerPath(i) : i \in DOMAIN files} \in {{"gate", "metadata"}, {"gate", "scan error"}}
  /\ emitted = <<1, 2>>

(***************************************************************************)
(* The parallel run under the scheduling it has: the pool threads and the  *)
(* writer are threads of the operating system, each of which keeps         *)
(* running while it has a step to take.                                    *)
(***************************************************************************)

\* a directory with more files than the channel holds messages
ManyFiles == CHANNEL_CAP + 2

ManyDir ==
  [i \in 1..ManyFiles |->
     File("f" \o ToString(1000 + i), 40,
          IF i = 1 THEN << Seg(0, LitGhp, "A", 36) >> ELSE <<>>, <<>>)]

(* Either the run is about to begin on a small directory, or it is under way
   on ManyDir where the pool has gone through the files 2 .. ManyFiles - 1 in
   index order before the writer's first recv: their messages fill the
   channel, the first and the last file are not taken yet. *)
InitPar ==
  /\ rules = <<RuleGhp>>
  /\ engine = "Bytes"
  /\ threads \in 2..MaxThreads
  /\ max_file_size = <<>>
  /\ seq_i = 1
  /\ out_seq = <<>>
  /\ first_seq = TRUE
  /\ stats_seq = [files_scanned |-> 0, outputs_written |-> 0]
  /\ found_seq = <<>>
  /\ worker = [w \in 1..threads |-> Idle]
  /\ next_idx = 1
  /\ buffer = {}
  /\ first_par = TRUE
  /\ stats_par = [files_scanned |-> 0, outputs_written |-> 0]
  /\ emitted = <<>>
  /\ \/ /\ files \in {SortByName(D) : D \in Directories}
        /\ pc = "par_start"
        /\ todo = {}
        /\ chan = <<>>
        /\ out_par = <<>>
        /\ sent = <<>>
     \/ /\ files = ManyDir
        /\ pc = "par"
        /\ todo = {1, ManyFiles}
        /\ chan = [k \in 1..CHANNEL_CAP |-> WorkerMsg(k + 1, ManyDir[k + 1], AscendingOrders)]
        /\ out_par = <<Punct("[")>>
        /\ sent = [i \in 1..ManyFiles |-> IF i \in {1, ManyFiles} THEN 0 ELSE 1]
  /\ scan_pc = "idle"
  /\ scan_orders = <<>>
  /\ whole_res = <<>>
  /\ naive_res = <<>>
  /\ utf8_res = <<>>
  /\ chunk_st = ChunkStart
  /\ read_log = <<>>
  /\ PlanIdle
  /\ CacheIdle
  /\ LoopIdle
  /\ LoadIdle

NextPar ==
  \/ ParBegin
  \/ \E w \in 1..threads : WorkerScan(w)
  \/ \E w \in 1..threads : WorkerSend(w)
  \/ WriterRecv
  \/ WriterEnd

(* The steps of the writer and of the pool, told by the one variable each
   of them always changes: among the steps of NextPar, a step that takes a
   file from the iterator is a WorkerScan step, a step that takes the head
   of the channel is a WriterRecv step, and the step to "done" is WriterEnd. *)
TakeFile ==
  /\ pc = "par"
  /\ \E w \in 1..threads : worker[w] = Idle
  /\ \E idx \in todo : todo' = todo \ {idx}

Recv ==
  /\ pc = "par"
  /\ chan # <<>>
  /\ chan' = Tail(chan)

RecvFails ==
  /\ pc = "par"
  /\ ChannelClosed
  /\ pc' = "done"

(* No thread that can step waits for ever: the writer receives while the
   channel holds a message and returns once the channel is closed, a thread
   in send gets through while the channel has room, and while a thread is
   idle and files are left, a file is taken. *)
FairPar ==
  /\ WF_vars(ParBegin)
  /\ WF_chan(Recv)
  /\ WF_pc(RecvFails)
  /\ WF_todo(TakeFile)
  /\ \A w \in 1..(MaxThreads + 1) : WF_vars(w <= threads /\ WorkerSend(w))

SpecPar == InitPar /\ [][NextPar]_vars /\ FairPar

\* a pool thread is in tx.send on the full channel
Blocked == \E w \in DOMAIN worker : worker[w] # Idle /\ Len(chan) = CHANNEL_CAP

\* the run returned with the closing bracket written
Returned == pc = "done" /\ out_par # <<>> /\ out_par[Len(out_par)] = Punct("]")

(* C23: under fair scheduling the parallel run returns with the closing
   bracket written, and a pool thread blocked in send on the full channel
   gets its message into the channel: the writer keeps receiving, also when
   the file with the lowest index is scanned last and the messages of more
   than CHANNEL_CAP later files are in the channel or wait to be sent. *)
C23_ParallelTerminates ==
  /\ <>Returned
  /\ Blocked ~> ~Blocked

\* the channel is full, a thread is blocked sending the last file's message, the first file is not sent
C23_Witness ==
  /\ Blocked
  /\ Len(files) > CHANNEL_CAP + 1
  /\ sent[1] = 0
  /\ next_idx = 1
  /\ \E w \in DOMAIN worker : worker[w] # Idle /\ worker[w].idx = Len(files)

\* the run on the large directory returned: every index written in order
C23_WitnessReturned ==
  /\ Returned
  /\ Len(files) > CHANNEL_CAP + 1
  /\ Len(emitted) = Len(files)
  /\ \E j \in DOMAIN out_par : out_par[j].t = "item"

(***************************************************************************)
(* The pool threads inside scan_buffer_with_prefilter, sharing plan.cache. *)
(* A thread scans one buffer at a time; a step of a thread is what it does *)
(* between two acquisitions of the cache mutex: the fast path's get, the   *)
(* compilation outside the lock, the insert.  The match loop of a rule     *)
(* touches only the thread's own findings and follows the lookup in the    *)
(* same step.                                                              *)
(***************************************************************************)

RuleLook == [id |-> "look", pat |-> PatLook]

\* rule files of these scans; RuleLook's pattern does not compile
CacheRuleFiles ==
  { <<RuleGhp>>, <<RuleGhp, RuleCtx>>, <<RuleGhp, RuleLook>>, <<RuleLook, RuleGhp>> }

\* files of these scans: each is read whole and is one buffer
CacheFiles ==
  { f \in Catalogue : f.name \in {"b", "c"} }
  \cup { File("both", 200, << Seg(0, LitGhp, "A", 36), Seg(50, LitSk, "B", 24) >>, <<>>) }

BufOf(f) == [f |-> f, lo |-> 0, hi |-> f.size]

\* the (window, rule) pairs of step 3 in the order the loops visit them
RECURSIVE VisitsFrom(_, _, _, _)
VisitsFrom(plan, windows, i, orders) ==
  IF i > Len(windows) THEN <<>>
  ELSE LET rule_set == RuleSetOf(plan, windows[i].aids)
           order    == orders[((i - 1) % Len(orders)) + 1]
           visit    == SelectSeq(order, LAMBDA r : r \in rule_set)
       IN [j \in 1..Len(visit) |-> [w |-> windows[i], r |-> visit[j]]]
          \o VisitsFrom(plan, windows, i + 1, orders)

NoBuffer ==
  [pc |-> "idle", idx |-> 0, visits |-> <<>>, k |-> 1,
   acc |-> [findings |-> <<>>, seen |-> {}], ret |-> <<>>, rx |-> <<>>]

InitCache ==
  /\ rules \in CacheRuleFiles
  /\ files \in {SortByName(D) : D \in {E \in SUBSET CacheFiles : Cardinality(E) \in 1..MaxFiles}}
  /\ engine = "Bytes"
  /\ threads \in 2..MaxThreads
  /\ max_file_size = <<>>
  /\ pc = "cache"
  /\ LoopIdle
  /\ LoadIdle
  /\ seq_i = 1
  /\ out_seq = <<>>
  /\ first_seq = TRUE
  /\ stats_seq = [files_scanned |-> 0, outputs_written |-> 0]
  /\ found_seq = <<>>
  /\ todo = DOMAIN files
  /\ worker = [w \in 1..threads |-> Idle]
  /\ chan = <<>>
  /\ next_idx = 1
  /\ buffer = {}
  /\ out_par = <<>>
  /\ first_par = TRUE
  /\ stats_par = [files_scanned |-> 0, outputs_written |-> 0]
  /\ sent = <<>>
  /\ emitted = <<>>
  /\ scan_pc = "idle"
  /\ scan_orders = <<>>
  /\ whole_res = <<>>
  /\ naive_res = <<>>
  /\ utf8_res = <<>>
  /\ chunk_st = ChunkStart
  /\ read_log = <<>>
  /\ pl_pc = "idle"
  /\ pl_entries = <<>>
  /\ pl_plan = build_prefilter_plan(rules)
  /\ pl_hits = <<>>
  /\ pl_windows = <<>>
  /\ pl_orders = <<>>
  /\ pl_findings = <<>>
  /\ sort_once = <<>>
  /\ sort_twice = <<>>
  /\ cache = <<>>
  /\ rx_worker = [w \in 1..threads |-> NoBuffer]
  /\ cache_log = [compiled |-> [r \in DOMAIN rules |-> 0],
                  inserted |-> [r \in DOMAIN rules |-> 0]]

\* the thread is through with a lookup that returned ret, and with the match loop if there was one
AfterLookup(t, ret) ==
  LET v   == t.visits[t.k]
      buf == BufOf(files[t.idx])
  IN [t EXCEPT !.ret = ret,
               !.rx = <<>>,
               !.acc = IF ret = <<>> THEN t.acc
                       ELSE EmitMatches(RegexMatches(ret[1], buf.f.segs, 1,
                                                     buf.lo + v.w.s, buf.lo + v.w.e),
                                        1, t.acc, buf, 0, v.w.s, buf.f.name),
               !.k = t.k + 1,
               !.pc = IF t.k + 1 > Len(t.visits) THEN "end" ELSE "fast"]

\* a cache that keeps the latest entry only
CacheInsertOnly(c, rule_idx, rx) == [x \in {rule_idx} |-> rx]

\* HashMap::insert
CacheInsert(c, rule_idx, rx) ==
  [x \in DOMAIN c \cup {rule_idx} |-> IF x = rule_idx THEN rx ELSE c[x]]

\* a thread takes a buffer: steps 1 and 2 of scan_buffer_with_prefilter
RxBegin(w) ==
  /\ pc = "cache"
  /\ rx_worker[w].pc \in {"idle", "end"}
  /\ \E idx \in todo :
       LET windows == WindowsOf(pl_plan, BufOf(files[idx]))
       IN \E o \in {q \in OrderChoices(Len(rules)) : UnreadAscending(q, Len(windows))} :
            LET visits == VisitsFrom(pl_plan, windows, 1, o)
            IN /\ rx_worker' = [rx_worker EXCEPT ![w] =
                                  [NoBuffer EXCEPT !.pc = IF visits = <<>> THEN "end" ELSE "fast",
                                                   !.idx = idx,
                                                   !.visits = visits]]
               /\ todo' = todo \ {idx}
  /\ UNCHANGED <<ld, mloop, input_vars, plan_vars, scan_vars, seq_vars, pc, worker, chan, next_idx, buffer,
                 out_par, first_par, stats_par, sent, emitted, cache, cache_log>>

\* the index check and the fast path: plan.cache.lock().unwrap().get(&rule_idx).cloned()
RxFast(w) ==
  /\ pc = "cache"
  /\ rx_worker[w].pc = "fast"
  /\ LET t == rx_worker[w]
         rule_idx == t.visits[t.k].r
     IN rx_worker' = [rx_worker EXCEPT ![w] =
                        IF rule_idx > Len(pl_plan.rule_patterns) THEN AfterLookup(t, <<>>)
                        ELSE IF rule_idx \in DOMAIN cache THEN AfterLookup(t, <<cache[rule_idx]>>)
                        ELSE [t EXCEPT !.pc = "compile"]]
  /\ UNCHANGED <<ld, mloop, input_vars, plan_vars, scan_vars, seq_vars, pc, par_vars, cache, cache_log>>

\* MetaRegex::new(pat), outside the lock
RxCompile(w) ==
  /\ pc = "cache"
  /\ rx_worker[w].pc = "compile"
  /\ LET t == rx_worker[w]
         rule_idx == t.visits[t.k].r
         res == MetaRegexNew(pl_plan.rule_patterns[rule_idx])
     IN IF res = <<>>
        THEN /\ rx_worker' = [rx_worker EXCEPT ![w] = AfterLookup(t, <<>>)]
             /\ UNCHANGED cache_log
        ELSE /\ rx_worker' = [rx_worker EXCEPT ![w] = [t EXCEPT !.pc = "insert", !.rx = res]]
             /\ cache_log' = [cache_log EXCEPT !.compiled[rule_idx] = @ + 1]
  /\ UNCHANGED <<ld, mloop, input_vars, plan_vars, scan_vars, seq_vars, pc, par_vars, cache>>

\* plan.cache.lock().unwrap().insert(rule_idx, rx.clone()); Some(rx)
RxInsert(w) ==
  /\ pc = "cache"
  /\ rx_worker[w].pc = "insert"
  /\ LET t == rx_worker[w]
         rule_idx == t.visits[t.k].r
     IN /\ cache' = CacheInsert(cache, rule_idx, t.rx[1])
        /\ cache_log' = [cache_log EXCEPT !.inserted[rule_idx] = @ + 1]
        /\ rx_worker' = [rx_worker EXCEPT ![w] = AfterLookup(t, t.rx)]
  /\ UNCHANGED <<ld, mloop, input_vars, plan_vars, scan_vars, seq_vars, pc, par_vars>>

NextCache ==
  \/ \E w \in 1..threads : RxBegin(w)
  \/ \E w \in 1..threads : RxFast(w)
  \/ \E w \in 1..threads : RxCompile(w)
  \/ \E w \in 1..threads : RxInsert(w)

SpecCache == InitCache /\ [][NextCache]_vars

(* C24: over a scan, the pattern of a rule is compiled at most once and
   inserted into the cache at most once, also when several threads ask for
   the regex of the same rule while it is not cached. *)
C24_CompiledOnce ==
  pc = "cache" =>
    \A r \in DOMAIN rules :
       /\ cache_log.compiled[r] <= 1
       /\ cache_log.inserted[r] <= 1

\* two threads missed the cache for the same rule: both compiled its pattern and both inserted it
C24_CompiledTwice ==
  /\ pc = "cache"
  /\ \E r \in DOMAIN rules : cache_log.compiled[r] = 2 /\ cache_log.inserted[r] = 2
  /\ \A r \in DOMAIN rules : cache_log.compiled[r] <= threads

\* the pattern of rule r does not compile
BadRule(r) == MetaRegexNew(rules[r].pat) = <<>>

\* the keys of the cache are indices of rules whose pattern compiles, each with its compiled regex
CacheKeysValid ==
  \A r \in DOMAIN cache :
     /\ r \in DOMAIN rules
     /\ ~BadRule(r)
     /\ cache[r] = CompileRegex(rules[r].pat)

\* a thread through with its buffer has, for every rule that compiles, the values the rule matches in the windows it is a candidate of
GoodRulesFound ==
  \A w \in DOMAIN rx_worker :
     rx_worker[w].pc = "end" =>
       \A j \in DOMAIN rx_worker[w].visits :
          LET v == rx_worker[w].visits[j]
          IN ~BadRule(v.r) =>
               \A m \in Range(RegexMatches(CompileRegex(rules[v.r].pat),
                                           files[rx_worker[w].idx].segs, 1, v.w.s, v.w.e)) :
                  \E f \in Range(rx_worker[w].acc.findings) :
                     f.value = from_utf8_lossy(m.raw)

\* no key leaves the cache, and a lookup that ends in a failed compilation returns None and changes neither the cache nor the findings
CacheStep ==
  /\ DOMAIN cache \subseteq DOMAIN cache'
  /\ \A r \in DOMAIN cache : cache'[r] = cache[r]
  /\ \A w \in DOMAIN rx_worker :
        (/\ rx_worker[w].pc = "compile"
         /\ BadRule(rx_worker[w].visits[rx_worker[w].k].r)
         /\ rx_worker'[w] # rx_worker[w])
        => /\ cache' = cache
           /\ rx_worker'[w].ret = <<>>
           /\ rx_worker'[w].acc = rx_worker[w].acc
           /\ rx_worker'[w].k = rx_worker[w].k + 1

(* C25: in every state the keys of the regex cache are indices of rules
   whose pattern compiles; no step removes a key; every lookup for a rule
   whose pattern does not compile returns None and leaves the cache as it
   was; and the other candidate rules of the window still yield their
   findings. *)
C25_CacheKeysAndDisabledRule ==
  /\ [](pc = "cache" => CacheKeysValid /\ GoodRulesFound)
  /\ [][pc = "cache" => CacheStep]_vars

\* a thread is through with a buffer in a window of which a rule that does not compile was looked up before the rule that found the token
C25_Witness ==
  /\ pc = "cache"
  /\ \E w \in DOMAIN rx_worker :
        /\ rx_worker[w].pc = "end"
        /\ Len(rx_worker[w].visits) = 2
        /\ BadRule(rx_worker[w].visits[1].r)
        /\ ~BadRule(rx_worker[w].visits[2].r)
        /\ rx_worker[w].visits[1].w = rx_worker[w].visits[2].w
        /\ rx_worker[w].acc.findings # <<>>
        /\ DOMAIN cache = {rx_worker[w].visits[2].r}

\* both threads looked the failing rule up, it is in the cache of neither
C25_WitnessEveryCall ==
  /\ pc = "cache"
  /\ todo = {}
  /\ Len(files) = 2
  /\ \A w \in DOMAIN rx_worker :
        /\ rx_worker[w].pc = "end"
        /\ \E j \in DOMAIN rx_worker[w].visits : BadRule(rx_worker[w].visits[j].r)
  /\ \A r \in DOMAIN cache : ~BadRule(r)

\* the carry is the last min(CHUNK_OVERLAP, file_offset) bytes of the prefix read so far
CarryIsTail(st) ==
  /\ st.carry.len = Min(CHUNK_OVERLAP, st.file_offset)
  /\ st.carry.len <= st.file_offset
  /\ st.carry.len > 0 => st.carry.lo = st.file_offset - st.carry.len
  /\ st.rpos = st.file_offset

\* the chunk assembled after a read of n bytes is the file slice that starts at file_offset - carry_len
ChunkIsSlice(st, n) ==
  LET chunk == ChunkOf(st, TheFile, n)
  IN /\ chunk.lo = st.file_offset - st.carry.len
     /\ chunk.hi = st.file_offset + n
     /\ BufLen(chunk) = st.carry.len + n
     /\ chunk.hi <= TheFile.size

(* C26: at every iteration of the chunked read loop, whatever the sizes the
   reads returned (a short read of fewer than CHUNK_OVERLAP bytes among
   them), the carry is the last min(512, file_offset) bytes of the prefix
   read so far, it is not longer than file_offset, and byte i of the chunk
   assembled next is the file's byte at file_offset - carry_len + i. *)
C26_CarryIsTailOfPrefix ==
  (scan_pc = "chunk" /\ chunk_st.ret # "binary") =>
    /\ CarryIsTail(chunk_st)
    /\ chunk_st.ret = "loop" => \A n \in ReadSizes \ {0} : ChunkIsSlice(chunk_st, n)

\* a full read and then a short read of fewer than 512 bytes: the carry is 512 bytes, 212 of them from the first read
C26_Witness ==
  /\ scan_pc = "chunk"
  /\ chunk_st.ret = "loop"
  /\ read_log = <<CHUNK_SIZE, ShortRead>>
  /\ ShortRead < CHUNK_OVERLAP
  /\ chunk_st.carry = [lo |-> CHUNK_SIZE + ShortRead - CHUNK_OVERLAP, len |-> CHUNK_OVERLAP]
  /\ chunk_st.file_offset = CHUNK_SIZE + ShortRead

\* the first read is short: the carry is all that was read
C26_WitnessShortFirst ==
  /\ scan_pc = "chunk"
  /\ chunk_st.ret = "loop"
  /\ read_log = <<ShortRead>>
  /\ chunk_st.carry = [lo |-> 0, len |-> ShortRead]

(***************************************************************************)
(* Properties of anchor extraction and of the plan                         *)
(***************************************************************************)

\* the candidates of each pattern: curated literals, idiom expansions, literal runs
CandidatesOf ==
  [pat \in Patterns |-> LiteralRuns(pat, 1, <<>>, FALSE, CuratedIn(pat) \cup IdiomsIn(pat))]

Candidates(pat) == CandidatesOf[pat]

\* the short whitelist: AIza, ya29., sk_, rk_, ghu_, ghs_, xoxp-, xoxe-, xoxs-, xoxo-
ListedShort ==
  { <<"A","I","z","a">>, <<"y","a","2","9",".">>, <<"s","k","_">>, <<"r","k","_">>,
    <<"g","h","u","_">>, <<"g","h","s","_">>, <<"x","o","x","p","-">>,
    <<"x","o","x","e","-">>, <<"x","o","x","s","-">>, <<"x","o","x","o","-">> }

\* the candidate is to be kept
ToBeKept(s) ==
  \/ s \in ListedShort
  \/ to_ascii_uppercase(s) \notin stoplist /\ Len(s) >= 6
  \/ Len(s) >= 4 /\ \E i \in DOMAIN s : s[i] \in {"-", "_", ".", "/"}

\* the list is ordered by length descending, then bytewise ascending, without duplicates
LongestFirst(a) ==
  \A i, j \in DOMAIN a :
     i < j => /\ a[i] # a[j]
              /\ \/ Len(a[i]) > Len(a[j])
                 \/ Len(a[i]) = Len(a[j]) /\ BytesLess(a[i], a[j])

(* C27: for every rule loaded, the anchor list of its pattern holds exactly
   the candidates (curated literals the pattern contains, idiom expansions,
   literal runs of at least 3 characters) that are in the short whitelist, or
   are no stopword when uppercased and have at least 6 bytes, or have at
   least 4 bytes and one of the separators - _ . /; the list has no
   duplicates and is ordered by length descending, then bytewise ascending;
   and the plan maps exactly these anchors to the rule. *)
C27_AnchorListExact ==
  \A r \in DOMAIN rules :
     LET a == AnchorsOfPattern[rules[r].pat]
     IN /\ Range(a) = {s \in Candidates(rules[r].pat) : ToBeKept(s)}
        /\ \A s \in Candidates(rules[r].pat) : Len(s) >= 3
        /\ LongestFirst(a)
        /\ PlanBuilt =>
             {pl_plan.anchors[aid] : aid \in {k \in DOMAIN pl_plan.anchors :
                                                r \in Range(pl_plan.anchor_to_rules[k])}}
               = Range(a)

\* the plan is built from AIza[A-Za-z0-9]{35}, whose only anchor is the
\* whitelisted AIza, and from PRIVATE KEY-----[A-Za-z0-9]{64,}, whose literal
\* run PRIVATE is a stopword and whose anchors have different lengths
C27_Witness ==
  /\ PlanBuilt
  /\ \E r \in DOMAIN rules :
       /\ rules[r].pat = PatAIza
       /\ AnchorsOfPattern[PatAIza] = << <<"A","I","z","a">> >>
  /\ \E r \in DOMAIN rules :
       /\ rules[r].pat = PatPrivKey
       /\ <<"P","R","I","V","A","T","E">> \in Candidates(PatPrivKey)
       /\ AnchorsOfPattern[PatPrivKey]
            = << <<"P","R","I","V","A","T","E"," ","K","E","Y">>,
                 <<"K","E","Y","-","-","-","-","-">> >>

\* two anchors of the same length are in byte order; sk- is a candidate and is dropped
C27_WitnessTie ==
  /\ PlanBuilt
  /\ \E r \in DOMAIN rules :
       /\ rules[r].pat = PatGhu
       /\ AnchorsOfPattern[PatGhu] = << <<"g","h","s","_">>, <<"g","h","u","_">> >>
  /\ \E r \in DOMAIN rules :
       /\ rules[r].pat = PatOpenai
       /\ <<"s","k","-">> \in Candidates(PatOpenai)
       /\ AnchorsOfPattern[PatOpenai] = <<>>

\* the sequence holds no value twice
NoRepeat(seq) == \A i, j \in DOMAIN seq : i # j => seq[i] # seq[j]

(* C28: the plan built from the rule specs loaded has no anchor twice, every
   anchor has at least 3 bytes, anchor_to_rules has one entry per anchor,
   every rule index in it is an index of rule_patterns, rule_patterns[i] is
   the pattern of the i-th spec, and no rule is twice in the list of an anchor. *)
C28_PlanInvariants ==
  PlanBuilt =>
    /\ NoRepeat(pl_plan.anchors)
    /\ \A aid \in DOMAIN pl_plan.anchors : Len(pl_plan.anchors[aid]) >= 3
    /\ DOMAIN pl_plan.anchor_to_rules = DOMAIN pl_plan.anchors
    /\ \A aid \in DOMAIN pl_plan.anchor_to_rules :
          /\ Range(pl_plan.anchor_to_rules[aid]) \subseteq DOMAIN pl_plan.rule_patterns
          /\ NoRepeat(pl_plan.anchor_to_rules[aid])
    /\ Len(pl_plan.rule_patterns) = Len(rules)
    /\ \A i \in DOMAIN rules : pl_plan.rule_patterns[i] = rules[i].pat

\* two rules share the anchor ghp_: it is interned once and lists both rules
C28_Witness ==
  /\ PlanBuilt
  /\ Len(rules) = 2
  /\ \E aid \in DOMAIN pl_plan.anchors :
       /\ pl_plan.anchors[aid] = <<"g","h","p","_">>
       /\ pl_plan.anchor_to_rules[aid] = <<1, 2>>

\* a plan with several anchors, one of whose rules has no anchor at all
C28_WitnessNoAnchor ==
  /\ PlanBuilt
  /\ Len(pl_plan.anchors) >= 2
  /\ \E r \in DOMAIN rules :
       /\ pl_plan.rule_patterns[r] = PatOpenai
       /\ \A aid \in DOMAIN pl_plan.anchors : r \notin Range(pl_plan.anchor_to_rules[aid])

\* the literal runs step 2 collects from each pattern
RunsOf == [pat \in Patterns |-> LiteralRuns(pat, 1, <<>>, FALSE, {})]

\* the shortest texts the pattern matches: a literal alternative, then the fewest class characters
ShortestTexts(pat) ==
  LET rx == CompileRegex(pat)
  IN {a \o [k \in 1..rx.min |-> c] : a \in rx.lits, c \in AsciiStreams}

\* the anchors of the pattern that are literal runs of it
RunAnchors(pat) == {s \in Range(AnchorsOfPattern[pat]) : s \in RunsOf[pat]}

(* C29: for every rule loaded, every anchor that is a literal run of its
   pattern is a substring of every text the pattern matches, also when the
   run ends right before ?, * or {0,n} and when it starts right after a
   backslash. *)
C29_RunsAreNecessary ==
  \A r \in DOMAIN rules :
     \A s \in RunAnchors(rules[r].pat) :
        \A t \in ShortestTexts(rules[r].pat) : Contains(t, s)

\* the same for the patterns without an optional last character and without an escape
C29_PlainRunsAreNecessary ==
  \A r \in DOMAIN rules :
     rules[r].pat \notin {PatOpt, PatEsc} =>
       \A s \in RunAnchors(rules[r].pat) :
          \A t \in ShortestTexts(rules[r].pat) : Contains(t, s)

\* api_keys?=[A-Za-z0-9]{16} is the only rule: its one anchor is api_keys, and the
\* scan of file opt ends without the token api_key=AAAAAAAAAAAAAAAA that the regex matches
C29_OptionalMissed ==
  /\ pl_pc = "end"
  /\ TheFile.name = "opt"
  /\ Len(rules) = 1
  /\ rules[1].pat = PatOpt
  /\ pl_plan.anchors = << <<"a","p","i","_","k","e","y","s">> >>
  /\ \E m \in RuleMatches(1) : m.raw.lit = <<"a","p","i","_","k","e","y","=">> /\ m.raw.n = 16
  /\ pl_findings = <<>>

\* \btok_[A-Za-z0-9]{10,} is the only rule: its one anchor is btok_, and the scan of
\* file opt ends without the token tok_BBBBBBBBBB
C29_EscapeMissed ==
  /\ pl_pc = "end"
  /\ TheFile.name = "opt"
  /\ Len(rules) = 1
  /\ rules[1].pat = PatEsc
  /\ pl_plan.anchors = << <<"b","t","o","k","_">> >>
  /\ \E m \in RuleMatches(1) : m.raw.lit = <<"t","o","k","_">> /\ m.raw.n = 10
  /\ pl_findings = <<>>

(***************************************************************************)
(* The match loop of one rule over one window, iteration by iteration      *)
(* (engine_bytes.rs, step 3 of scan_buffer_with_prefilter)                 *)
(***************************************************************************)

\* longest window of the match loop
MaxWindow == 3

\* the bytes a window is made of
WindowBytes == {"a", "b", "x"}

Windows == UNION {[1..n -> WindowBytes] : n \in 0..MaxWindow}

\* The regexes the loop is run with:
\*   a*     matches the empty string everywhere;
\*   (a*)   the same, with the whole match as group 1;
\*   a+     never matches the empty string;
\*   x(a*)  group 1 is empty when no a follows the x;
\*   (a)|b  group 1 takes no part in a match of b.
LoopRegexes == {"a*", "(a*)", "a+", "x(a*)", "(a)|b"}

Span(start, end) == [start |-> start, end |-> end]

\* the number of bytes c in a row from offset p on
RECURSIVE RunLen(_, _, _)
RunLen(w, p, c) == IF p < Len(w) /\ w[p + 1] = c THEN 1 + RunLen(w, p + 1, c) ELSE 0

SetMin(S) == CHOOSE x \in S : \A y \in S : x <= y

\* the offsets from at on that hold a byte of S
OffsetsOf(w, at, S) == {p \in at..(Len(w) - 1) : w[p + 1] \in S}

\* Input::span accepts at..window.len() when the start is at most one past the end
ValidSpan(w, at) == at <= Len(w) + 1

(* re.captures(input, &mut caps) over the span at..window.len(): the leftmost
   match that starts at or after `at`; <<>> when there is none, and when the
   span is empty past the end (at = len + 1).  Else <<[m0, g1]>>, g1 being
   <<>> when group 1 does not exist or took no part. *)
Captures(re, w, at) ==
  IF at > Len(w) THEN <<>>
  ELSE CASE re = "a*" ->
              << [m0 |-> Span(at, at + RunLen(w, at, "a")), g1 |-> <<>>] >>
         [] re = "(a*)" ->
              << [m0 |-> Span(at, at + RunLen(w, at, "a")),
                  g1 |-> <<Span(at, at + RunLen(w, at, "a"))>>] >>
         [] re = "a+" ->
              IF OffsetsOf(w, at, {"a"}) = {} THEN <<>>
              ELSE LET p == SetMin(OffsetsOf(w, at, {"a"}))
                   IN << [m0 |-> Span(p, p + RunLen(w, p, "a")), g1 |-> <<>>] >>
         [] re = "x(a*)" ->
              IF OffsetsOf(w, at, {"x"}) = {} THEN <<>>
              ELSE LET p == SetMin(OffsetsOf(w, at, {"x"}))
                       e == p + 1 + RunLen(w, p + 1, "a")
                   IN << [m0 |-> Span(p, e), g1 |-> <<Span(p + 1, e)>>] >>
         [] re = "(a)|b" ->
              IF OffsetsOf(w, at, {"a", "b"}) = {} THEN <<>>
              ELSE LET p == SetMin(OffsetsOf(w, at, {"a", "b"}))
                   IN << [m0 |-> Span(p, p + 1),
                          g1 |-> IF w[p + 1] = "a" THEN <<Span(p, p + 1)>> ELSE <<>>] >>

\* a cursor that stays at the end of a match whose selected group is empty
StayAtEnd(m0) == m0.end

\* the cursor after a match whose selected group is empty
SkipEmpty(m0) == m0.end + 1

\* the cursor after a value was taken
AdvancePast(at, m0) == IF m0.end > at THEN m0.end ELSE at + 1

\* a selection that always takes the whole match
SelectedGroup0(c) == c.m0

\* (start, end): group 1 when caps has it, else group 0
Selected(c) == IF c.g1 # <<>> THEN c.g1[1] ELSE c.m0

\* the loop body after a match: st is the loop's state, c the captures
LoopBody(st, c) ==
  LET sel   == Selected(c)
      value == SubSeq(st.window, sel.start + 1, sel.end)
  IN IF sel.end <= sel.start THEN [st EXCEPT !.at = SkipEmpty(c.m0)]
     ELSE [st EXCEPT !.at = AdvancePast(st.at, c.m0),
                     !.seen = @ \cup {value},
                     !.findings = IF value \in st.seen THEN @
                                  ELSE Append(@, [value |-> value, start_offset |-> sel.start])]

\* no match was yielded yet
NoMatchYet == -1

(* re.captures_iter(&buf), the next item: the leftmost match from the
   iterator's position on; an empty match that ends where the last match
   ended is not yielded, the search is repeated one byte further. *)
CapturesIter(re, w, at, last) ==
  LET c == Captures(re, w, at)
  IN IF c # <<>> /\ c[1].m0.start = c[1].m0.end /\ c[1].m0.end = last
     THEN Captures(re, w, at + 1)
     ELSE c

\* the body of the for loop of scan_file_utf8 for the item c
IterBody(st, c) ==
  LET sel   == Selected(c)
      value == SubSeq(st.window, sel.start + 1, sel.end)
      nxt   == [st EXCEPT !.at = c.m0.end, !.last = c.m0.end]
  IN IF sel.end <= sel.start THEN nxt
     ELSE [nxt EXCEPT !.seen = @ \cup {value},
                      !.findings = IF value \in st.seen THEN @
                                   ELSE Append(@, [value |-> value, start_offset |-> sel.start])]

InitLoop ==
  /\ rules = <<>>
  /\ files = <<>>
  /\ engine \in {"Bytes", "Utf8"}
  /\ threads = 2
  /\ max_file_size = <<>>
  /\ pc = "mloop"
  /\ RunsNotStarted
  /\ CacheIdle
  /\ PlanIdle
  /\ scan_pc = "idle"
  /\ scan_orders = <<>>
  /\ whole_res = <<>>
  /\ naive_res = <<>>
  /\ utf8_res = <<>>
  /\ chunk_st = ChunkStart
  /\ read_log = <<>>
  /\ LoadIdle
  /\ mloop \in { [re |-> re, window |-> w, at |-> 0, last |-> NoMatchYet, findings |-> <<>>,
                  seen |-> seen, pc |-> IF engine = "Bytes" THEN "loop" ELSE "iter"]
                 : re \in LoopRegexes, w \in Windows, seen \in {{}, {<<"a">>}} }

\* one iteration that does not leave the loop: the search finds a match, or the span is refused
LoopStep ==
  /\ mloop # <<>>
  /\ mloop.pc = "loop"
  /\ IF ~ValidSpan(mloop.window, mloop.at)
     THEN mloop' = [mloop EXCEPT !.pc = "panic"]
     ELSE /\ Captures(mloop.re, mloop.window, mloop.at) # <<>>
          /\ mloop' = LoopBody(mloop, Captures(mloop.re, mloop.window, mloop.at)[1])
  /\ UNCHANGED <<ld, cache_vars, input_vars, pc, seq_vars, par_vars, scan_vars, plan_vars>>

\* the search finds nothing: break
LoopBreak ==
  /\ mloop # <<>>
  /\ mloop.pc = "loop"
  /\ ValidSpan(mloop.window, mloop.at)
  /\ Captures(mloop.re, mloop.window, mloop.at) = <<>>
  /\ mloop' = [mloop EXCEPT !.pc = "done"]
  /\ UNCHANGED <<ld, cache_vars, input_vars, pc, seq_vars, par_vars, scan_vars, plan_vars>>

\* scan_file_utf8: the iterator yields a match and the body of the for loop runs
IterStep ==
  /\ mloop # <<>>
  /\ mloop.pc = "iter"
  /\ CapturesIter(mloop.re, mloop.window, mloop.at, mloop.last) # <<>>
  /\ mloop' = IterBody(mloop, CapturesIter(mloop.re, mloop.window, mloop.at, mloop.last)[1])
  /\ UNCHANGED <<ld, cache_vars, input_vars, pc, seq_vars, par_vars, scan_vars, plan_vars>>

\* scan_file_utf8: the iterator is exhausted
IterEnd ==
  /\ mloop # <<>>
  /\ mloop.pc = "iter"
  /\ CapturesIter(mloop.re, mloop.window, mloop.at, mloop.last) = <<>>
  /\ mloop' = [mloop EXCEPT !.pc = "done"]
  /\ UNCHANGED <<ld, cache_vars, input_vars, pc, seq_vars, par_vars, scan_vars, plan_vars>>

NextLoop ==
  \/ LoopStep
  \/ LoopBreak
  \/ IterStep
  \/ IterEnd

\* the thread that runs the loop is not suspended forever
SpecLoop == InitLoop /\ [][NextLoop]_vars /\ WF_vars(NextLoop)

(* C30: the match loop of every regex over every window terminates, regexes
   that match the empty string and matches whose selected group is empty
   included: every search span is valid, the cursor is strictly larger after
   every iteration that stays in the loop, and no value of length zero is
   emitted. *)
C30_MatchLoopTerminates ==
  /\ <>(mloop.pc = "done")
  /\ [](mloop.pc # "panic" /\ ValidSpan(mloop.window, mloop.at))
  /\ [][mloop'.pc = "loop" => mloop'.at > mloop.at]_mloop
  /\ [](\A k \in DOMAIN mloop.findings : Len(mloop.findings[k].value) > 0)

\* a* over "ab" has ended: a was emitted, the empty matches at 1 and at 2 were
\* skipped, and the last span started one past the end of the window
C30_Witness ==
  /\ mloop.pc = "done"
  /\ mloop.re = "a*"
  /\ mloop.window = <<"a", "b">>
  /\ mloop.findings = << [value |-> <<"a">>, start_offset |-> 0] >>
  /\ mloop.at = Len(mloop.window) + 1

\* x(a*) over "xbx" has ended without a value: group 1 was empty in both matches
C30_WitnessEmptyGroup ==
  /\ mloop.pc = "done"
  /\ mloop.re = "x(a*)"
  /\ mloop.window = <<"x", "b", "x">>
  /\ mloop.findings = <<>>
  /\ mloop.at = 4

\* the captures the running loop got at this state, if any
CapsNow ==
  IF mloop.pc = "loop" THEN Captures(mloop.re, mloop.window, mloop.at)
  ELSE IF mloop.pc = "iter" THEN CapturesIter(mloop.re, mloop.window, mloop.at, mloop.last)
  ELSE <<>>

\* the regex has a capture group 1
HasGroup1(re) == re \in {"(a*)", "x(a*)", "(a)|b"}

\* group 1 took part in the match: always in (a*) and x(a*), in (a)|b when the match is an a
TookPart(re, w, m0) == HasGroup1(re) /\ (re = "(a)|b" => w[m0.start + 1] = "a")

\* the span the value is to be taken from
ChosenSpan(re, w, c) == IF TookPart(re, w, c.m0) THEN c.g1[1] ELSE c.m0

\* the step pushes exactly the finding x
Pushes(x) == mloop'.findings = Append(mloop.findings, x)

(* C31: in the loop of either engine, a match whose chosen span (group 1 when
   it took part in the match, group 0 otherwise) is not empty and whose value
   was not seen pushes exactly one finding: its value is the bytes of the
   chosen span and its start_offset the start of that span; every other step
   pushes nothing. *)
C31_ValueIsChosenGroup ==
  [][ IF CapsNow = <<>> THEN mloop'.findings = mloop.findings
      ELSE LET sp == ChosenSpan(mloop.re, mloop.window, CapsNow[1])
               v  == SubSeq(mloop.window, sp.start + 1, sp.end)
           IN IF sp.end <= sp.start \/ v \in mloop.seen
              THEN mloop'.findings = mloop.findings
              ELSE Pushes([value |-> v, start_offset |-> sp.start]) ]_mloop

\* x(a*) over "xa" under the bytes engine: the value is a at offset 1, not xa at 0
C31_Witness ==
  /\ engine = "Bytes"
  /\ mloop.re = "x(a*)"
  /\ mloop.window = <<"x", "a">>
  /\ mloop.findings = << [value |-> <<"a">>, start_offset |-> 1] >>

\* (a)|b over "ba" under the utf8 engine: group 1 took no part in the match of b,
\* whose value is group 0, and is the value of the match of a
C31_WitnessAlternative ==
  /\ engine = "Utf8"
  /\ mloop.re = "(a)|b"
  /\ mloop.window = <<"b", "a">>
  /\ mloop.seen = {<<"a">>, <<"b">>}
  /\ mloop.findings = << [value |-> <<"b">>, start_offset |-> 0],
                         [value |-> <<"a">>, start_offset |-> 1] >>

\* x(a*) over "xa" under the utf8 engine
C31_WitnessUtf8 ==
  /\ engine = "Utf8"
  /\ mloop.re = "x(a*)"
  /\ mloop.window = <<"x", "a">>
  /\ mloop.findings = << [value |-> <<"a">>, start_offset |-> 1] >>

(***************************************************************************)
(* Properties of the binary sniffer                                        *)
(***************************************************************************)

\* 0x09, 0x0A, 0x0D and 0x20..0x7E
PrintableBytes == {9, 10, 13} \cup (32..126)

\* how many of the first m bytes of the file are in PrintableBytes
PrintableIn(f, m) ==
  m - NoiseCount(f.noise, {k \in NoiseKinds : ByteOf(k) \notin PrintableBytes}, 1, 0, m)

\* the first m bytes of the file hold a 0x00 byte
HasNul(f, m) ==
  \E i \in DOMAIN f.noise : ByteOf(f.noise[i].kind) = 0 /\ f.noise[i].n > 0 /\ f.noise[i].pos < m

\* the binary test of the first m bytes
BinaryTest(f, m) == m > 0 /\ (HasNul(f, m) \/ 4 * PrintableIn(f, m) < m)

(* C32: the whole-file path returns no finding when the binary test holds for
   the whole content and the findings of the buffer scan otherwise; the
   chunked path gives the file up exactly when the test holds for the first
   min(8192, length of the first chunk) bytes, which it decides in its first
   iteration, before any finding; an empty file is not binary. *)
C32_BinaryTest ==
  /\ whole_res # <<>> =>
       whole_res[1] = Ok(IF BinaryTest(TheFile, TheFile.size) THEN <<>>
                         ELSE scan_buffer_with_prefilter(TheBuf, 0, TheFile.name, Plan, scan_orders))
  /\ scan_pc \in {"chunk", "end"} =>
       /\ chunk_st.ret = "binary"
            <=> (read_log # <<>> /\ BinaryTest(TheFile, Min(read_log[1], SAMPLE_LEN)))
       /\ chunk_st.ret = "binary" => Len(read_log) = 1 /\ chunk_st.findings = <<>>
  /\ TheFile.size = 0 =>
       /\ ~BinaryTest(TheFile, 0)
       /\ scan_pc = "end" => chunk_st.ret = "eof" /\ read_log = <<0>>

\* file ws, 230 of whose 300 bytes are tab, LF or CR, went through both
\* paths and both found its token
C32_Witness ==
  /\ scan_pc = "end"
  /\ TheFile.name = "ws"
  /\ whole_res[1].findings # <<>>
  /\ chunk_st.ret = "eof"
  /\ chunk_st.findings # <<>>

\* file ctl, 230 of whose 300 bytes are 0x1F or 0x7F, was given up by both
\* paths, and the regex-only scan finds its token
C32_WitnessControl ==
  /\ scan_pc = "end"
  /\ TheFile.name = "ctl"
  /\ naive_res[1].findings # <<>>
  /\ whole_res[1].findings = <<>>
  /\ chunk_st.ret = "binary"

\* exactly a quarter of the bytes is printable: the file is scanned
C32_WitnessQuarter ==
  /\ scan_pc = "end"
  /\ TheFile.name = "quarter"
  /\ 4 * PrintableIn(TheFile, TheFile.size) = TheFile.size
  /\ whole_res[1].findings # <<>>
  /\ chunk_st.ret = "eof"

\* one printable byte less: the file is given up
C32_WitnessUnder ==
  /\ scan_pc = "end"
  /\ TheFile.name = "under"
  /\ naive_res[1].findings # <<>>
  /\ whole_res[1].findings = <<>>
  /\ chunk_st.ret = "binary"

\* the NUL at 5000 lies behind the 300 bytes of a short first read: the
\* chunked path scans the file and finds the token
C32_WitnessShortSample ==
  /\ scan_pc = "end"
  /\ TheFile.name = "bignul"
  /\ read_log[1] = ShortRead
  /\ chunk_st.ret = "eof"
  /\ chunk_st.findings # <<>>

\* the empty file went through both paths
C32_WitnessEmpty ==
  /\ scan_pc = "end"
  /\ TheFile.size = 0
  /\ whole_res[1] = Ok(<<>>)
  /\ chunk_st.ret = "eof"

(* C33: the windows built from the hits of the buffer are in ascending order
   and pairwise disjoint, each one starting strictly after the end of the one
   before it; every window satisfies 0 <= start <= end <= len(buf) and
   carries at least one anchor id. *)
C33_WindowsDisjointInBounds ==
  pl_pc \in {"rules", "end"} =>
    \A i \in DOMAIN pl_windows :
       /\ 0 <= pl_windows[i].s
       /\ pl_windows[i].s <= pl_windows[i].e
       /\ pl_windows[i].e <= BufLen(TheBuf)
       /\ pl_windows[i].aids # <<>>
       /\ i > 1 => pl_windows[i].s > pl_windows[i - 1].e

\* two windows far from each other
C33_Witness ==
  /\ pl_pc \in {"rules", "end"}
  /\ Len(pl_windows) = 2
  /\ pl_windows[1].s > 0
  /\ pl_windows[2].s > pl_windows[1].e + 1

\* a window cut at both ends of the buffer
C33_WitnessCut ==
  /\ pl_pc \in {"rules", "end"}
  /\ Len(pl_windows) = 1
  /\ pl_windows[1].s = 0
  /\ pl_windows[1].e = BufLen(TheBuf)
  /\ pl_hits[1][1] > 0
  /\ pl_hits[1][1] + WINDOW_AFTER > BufLen(TheBuf)

\* a window of two hits: the range of the second hit starts before the window does
C33_WitnessMerged ==
  /\ pl_pc \in {"rules", "end"}
  /\ \E i \in DOMAIN pl_windows :
       /\ Len(pl_windows[i].aids) = 2
       /\ \E k \in DOMAIN pl_hits : HitRange(k).s < pl_windows[i].s /\ pl_hits[k][1] > pl_windows[i].s

(***************************************************************************)
(* The head of scan_and_write: the rules file is read and parsed, the      *)
(* engine is built, the directory is walked, and the opening bracket is    *)
(* written by the path the dispatch takes.                                 *)
(***************************************************************************)

\* one [[rules]] table as written in the file: every key is there (<<x>>) or not (<<>>)
Table(id, pattern, regex) == [id |-> id, pattern |-> pattern, regex |-> regex]

\* the tables a rules file is written from
TableCatalogue ==
  { Table(<<"ghp">>, <<PatGhp>>, <<>>),
    Table(<<"ghu">>, <<>>, <<PatGhu>>),
    Table(<<"both">>, <<PatGhu>>, <<PatGhp>>),
    Table(<<"bare">>, <<>>, <<>>),
    Table(<<>>, <<PatGhp>>, <<>>) }

\* the rules file on disk: read_to_string succeeds or not, the text is TOML with
\* a table array `rules` (or no key at all) or not, and the tables in file order
RulesFilesOnDisk ==
  [ readable : BOOLEAN, toml_ok : BOOLEAN,
    tables : UNION { [1..n -> TableCatalogue] : n \in 0..MaxEntries } ]

\* toml::from_str::<RuleFile>: id is a String without a serde default, so a
\* table without id is an error of the whole document; name, pattern and
\* regex default to None
from_str(f) ==
  IF ~f.toml_ok THEN [ok |-> FALSE, err |-> "toml", entries |-> <<>>]
  ELSE IF \E k \in DOMAIN f.tables : f.tables[k].id = <<>>
       THEN [ok |-> FALSE, err |-> "missing field id", entries |-> <<>>]
       ELSE [ok |-> TRUE, err |-> "",
             entries |-> [k \in DOMAIN f.tables |->
                            Entry(f.tables[k].id[1], f.tables[k].pattern, f.tables[k].regex)]]

\* load_rule_specs(path): read_to_string(path)?, toml::from_str(&txt)?, the loop
load_rule_file(f) ==
  IF ~f.readable THEN [ok |-> FALSE, err |-> "io", specs |-> <<>>]
  ELSE LET parsed == from_str(f)
       IN IF ~parsed.ok THEN [ok |-> FALSE, err |-> parsed.err, specs |-> <<>>]
          ELSE [ok |-> TRUE, err |-> "", specs |-> load_rule_specs(parsed.entries)]

\* the directories scan_and_write is pointed at
LoadDirectories == {D \in SUBSET DirFiles : \A f \in D : f.name \in {"a", "b"}}

\* matches!(opts.engine, ScanEngine::Bytes) && threads > 1
use_parallel == engine = "Bytes" /\ threads > 1

InitLoad ==
  /\ rules = <<>>
  /\ files = <<>>
  /\ engine \in {"Bytes", "Utf8"}
  /\ threads \in 1..MaxThreads
  /\ max_file_size = <<>>
  /\ pc = "load"
  /\ RunsNotStarted
  /\ scan_pc = "idle"
  /\ scan_orders = <<>>
  /\ whole_res = <<>>
  /\ naive_res = <<>>
  /\ utf8_res = <<>>
  /\ chunk_st = ChunkStart
  /\ read_log = <<>>
  /\ PlanIdle
  /\ CacheIdle
  /\ LoopIdle
  /\ ld \in { [file |-> f, dir |-> D, err |-> "", walked |-> FALSE]
              : f \in RulesFilesOnDisk, D \in LoadDirectories }

\* the load went through: the loop over the directory and files.sort_by
WalkDir ==
  /\ pc = "walk"
  /\ files' = SortByName(ld.dir)
  /\ ld' = [ld EXCEPT !.walked = TRUE]
  /\ pc' = IF use_parallel THEN "par_start" ELSE "start"
  /\ UNCHANGED <<mloop, cache_vars, rules, engine, threads, max_file_size, seq_vars, par_vars,
                 scan_vars, plan_vars>>

\* a load whose error is noted and not returned
LoadRuleSpecsGoesOn ==
  /\ pc = "load"
  /\ LET r == load_rule_file(ld.file)
     IN /\ rules' = r.specs
        /\ pc' = "walk"
        /\ ld' = [ld EXCEPT !.err = r.err]
  /\ UNCHANGED <<mloop, cache_vars, files, engine, threads, max_file_size, seq_vars, par_vars,
                 scan_vars, plan_vars>>

\* let rule_specs = load_rule_specs(&rules_path)?: `?` returns the error at once
LoadRuleSpecsReturn ==
  /\ pc = "load"
  /\ LET r == load_rule_file(ld.file)
     IN IF r.ok
        THEN /\ rules' = r.specs
             /\ pc' = "walk"
             /\ UNCHANGED ld
        ELSE /\ ld' = [ld EXCEPT !.err = r.err]
             /\ pc' = "failed"
             /\ UNCHANGED rules
  /\ UNCHANGED <<mloop, cache_vars, files, engine, threads, max_file_size, seq_vars, par_vars,
                 scan_vars, plan_vars>>

NextLoad ==
  \/ LoadRuleSpecsReturn
  \/ WalkDir
  \/ SeqBegin
  \/ ParBegin

SpecLoad == InitLoad /\ [][NextLoad]_vars

\* the specs of the tables that have an id and a pattern or a regex, in file order
RECURSIVE WellFormedSpecs(_)
WellFormedSpecs(tables) ==
  IF tables = <<>> THEN <<>>
  ELSE LET t == Head(tables)
       IN (IF t.id # <<>> /\ (t.pattern # <<>> \/ t.regex # <<>>)
           THEN <<[id |-> t.id[1], pat |-> IF t.pattern # <<>> THEN t.pattern[1] ELSE t.regex[1]]>>
           ELSE <<>>)
          \o WellFormedSpecs(Tail(tables))

\* C34: rule loading fails only if the rules file cannot be read or its top
\* level cannot be parsed; a defect of one table (no pattern and no regex, or no
\* id) neither fails the load nor removes the other tables' rules
C34_LoadFailsOnlyOnFile ==
  ld # <<>> /\ pc # "load" =>
    /\ pc = "failed" <=> (~ld.file.readable \/ ~ld.file.toml_ok)
    /\ pc # "failed" => rules = WellFormedSpecs(ld.file.tables)

\* the same for the rules files whose tables all carry an id
C34_HoldsWhenEveryTableHasId ==
  ld # <<>> /\ pc # "load" /\ (\A k \in DOMAIN ld.file.tables : ld.file.tables[k].id # <<>>) =>
    /\ pc = "failed" <=> (~ld.file.readable \/ ~ld.file.toml_ok)
    /\ pc # "failed" => rules = WellFormedSpecs(ld.file.tables)

\* a readable, well-formed TOML file with a valid table and a table without id: the load fails
C34_MissingIdFailsLoad ==
  /\ ld # <<>>
  /\ pc = "failed"
  /\ ld.file.readable /\ ld.file.toml_ok
  /\ ld.file.tables = << Table(<<"ghp">>, <<PatGhp>>, <<>>), Table(<<>>, <<PatGhp>>, <<>>) >>
  /\ ld.err = "missing field id"

\* a table with neither pattern nor regex is skipped and the load goes on
C34_BareTableSkipped ==
  /\ ld # <<>>
  /\ pc = "walk"
  /\ ld.file.tables = << Table(<<"bare">>, <<>>, <<>>), Table(<<"ghu">>, <<>>, <<PatGhu>>) >>
  /\ rules = << [id |-> "ghu", pat |-> PatGhu] >>

\* C35: when rule loading fails, scan_and_write returns the error at once: no
\* byte has been written to the sink (so no "[" without "]"), the directory has
\* not been enumerated, and nothing is done afterwards
C35_FailedLoadWritesNothing ==
  /\ [](ld.err # "" =>
          /\ pc = "failed"
          /\ out_seq = <<>> /\ out_par = <<>>
          /\ ~ld.walked /\ files = <<>>)
  /\ [][pc = "load" /\ ~load_rule_file(ld.file).ok => ld'.err # ""]_vars
  /\ [][pc # "failed"]_vars

\* an unreadable rules file and a directory with two files: the error is returned, nothing written or listed
C35_Witness ==
  /\ pc = "failed"
  /\ ld.err = "io"
  /\ Cardinality(ld.dir) = 2
  /\ files = <<>> /\ out_seq = <<>> /\ out_par = <<>>

\* the same when the text is not TOML, and when a table makes the parse fail
C35_WitnessParse ==
  /\ pc = "failed"
  /\ ld.err \in {"toml", "missing field id"}
  /\ ld.dir # {}
  /\ ~ld.walked

\* a load that went through reaches the opening bracket of either path
C35_WitnessLoaded ==
  /\ ld.err = ""
  /\ ld.walked
  /\ \/ pc = "seq" /\ out_seq = <<Punct("[")>> /\ ~use_parallel
     \/ pc = "par" /\ out_par = <<Punct("[")>> /\ use_parallel

\* the file is handed to the run's engine and its scan returns Ok
ScanReturnsOk(f) ==
  /\ ~NameSkipped(f)
  /\ ~Oversized(f)
  /\ engine = "Bytes" => f.meta_ok
  /\ ScanAlone(f, CHOOSE o \in OrderChoices(Len(rules)) : TRUE).ok

\* the counters of a returned run against what it wrote and what it scanned
CountersMatch(out, stats) ==
  /\ stats.outputs_written = Len(Items(out))
  /\ stats.files_scanned = Cardinality({i \in DOMAIN files : ScanReturnsOk(files[i])})

(* C36: when a run has returned, outputs_written is the number of items in
   the array it wrote and files_scanned is the number of files whose scan
   returned Ok (a file passed over by the size gate, for its name, or whose
   scan failed is not counted); the parallel run of the same input ends with
   the same two counters as the sequential run. *)
C36_CountersMatchOutput ==
  /\ SeqReturned => CountersMatch(out_seq, stats_seq)
  /\ pc = "done" /\ engine = "Bytes" =>
       /\ CountersMatch(out_par, stats_par)
       /\ stats_par = stats_seq

\* both runs returned: one file passed over, one scanned with an item
C36_Witness ==
  /\ pc = "done"
  /\ engine = "Bytes"
  /\ \E i \in DOMAIN files : NameSkipped(files[i]) \/ Oversized(files[i])
  /\ stats_seq = [files_scanned |-> 1, outputs_written |-> 1]
  /\ stats_par = [files_scanned |-> 1, outputs_written |-> 1]
  /\ Len(Items(out_par)) = 1

\* a failed scan next to a file that is passed over: both counters stay at zero
C36_WitnessNoneScanned ==
  /\ pc = "done"
  /\ engine = "Bytes"
  /\ Len(files) = 2
  /\ \E i \in DOMAIN files : ScanFails(files[i])
  /\ \E i \in DOMAIN files : NameSkipped(files[i]) \/ Oversized(files[i])
  /\ stats_par = [files_scanned |-> 0, outputs_written |-> 0]
  /\ stats_seq = stats_par

\* more items than files, and the utf8 run
C36_WitnessManyItems ==
  /\ SeqReturned
  /\ stats_seq.outputs_written > stats_seq.files_scanned
  /\ stats_seq.files_scanned > 0

C36_WitnessUtf8 ==
  /\ pc = "done"
  /\ engine = "Utf8"
  /\ \E i \in DOMAIN files : ScanFails(files[i])
  /\ stats_seq = [files_scanned |-> 1, outputs_written |-> 1]

=============================================================================
